---- MODULE Spec2Model ----
(***************************************************************************)
(* Model of the MinstrelsToolkit room server (the WebSocket module that is *)
(* concatenated into src/src/server/services/asset.ts, lines 530-1676):    *)
(* the room registry, the connection registry, the playback state machine, *)
(* the playlist handlers with their asynchronous playlist lookup, and the  *)
(* mini-app dispatch.                                                      *)
(*                                                                         *)
(* A handler that awaits playlistService.getPlaylist is split at the       *)
(* await: the part before it is one action, the file read together with    *)
(* the continuation a second one, so that other messages can be handled in *)
(* between, as the event loop allows.                                      *)
(***************************************************************************)
EXTENDS Integers, Sequences, FiniteSets, TLC

\* ---------------------------------------------------------------- bounds
MaxTime == 1        \* the wall clock Date.now() takes the values 0..MaxTime
MaxPending == 1     \* playlist lookups that may be in flight at once
MaxTracks == 2      \* longest stored playlist
MaxSeek == 2        \* largest seek target of the timing specification
MaxSockets == 2     \* client sockets and reconnect timers that may be alive at once
MaxClock == 3       \* the browser clock takes the values 0, 300, .. 300 * MaxClock ms
MaxFrames == 2      \* layer volumes arrive during the first 300 * MaxFrames ms of frames

\* ------------------------------------------------------------ input sets
NULL == "null"                       \* JS null / undefined of a string field
Conns == {"k1", "k2"}                \* connection ids (crypto.randomUUID)
Campaigns == {"", "c1", "c2"}        \* campaign ids a join-campaign may name
Users == {"u1", "u2"}                \* identities an identify may carry
Identity(c) == IF c = "k1" THEN "u1" ELSE "u2"   \* the user behind a socket
PlaylistIds == {"p1", "p2", "p3"}
AssetNames == <<"a1", "a2", "a3", "a4">>
Assets == {AssetNames[i] : i \in 1..(MaxTracks + 1)}
AppIds == {"media-display", "custom"}
TrackLists == {SubSeq(AssetNames, 1, n) : n \in 0..MaxTracks}
GM == "k1"                           \* the connection of the game master
External == AssetNames[MaxTracks + 1]  \* an asset of no stored playlist
ObjIds == 1..(Cardinality(Campaigns) + MaxPending)

VARIABLES
  now,          \* Date.now()
  connections,  \* the ids of the module-level connections map (open sockets)
  wsdata,       \* ws.data of every socket: campaignId and user
  rooms,        \* the module-level rooms map: campaign id -> room object
  heap,         \* the room objects, registered or still held by a continuation
  pending,      \* continuations of handlers suspended at await getPlaylist
  storage,      \* the stored playlists: campaign id -> playlist id -> file
  sent,         \* the ws.send calls of the last handler step, in call order
  last,         \* the handler step that ran last (history)
  ws,                 \* client: ws.value, a socket or NULL
  sockets,            \* client: readyState of every WebSocket it has created
  connected,          \* client: connected.value
  reconnecting,       \* client: reconnecting.value
  error,              \* client: error.value
  reconnectAttempts,  \* client: reconnectAttempts
  reconnectTimeout,   \* client: <<delay>> of the timer in reconnectTimeout, <<>> for null
  orphanTimers,       \* client: pending timers whose handle was overwritten or nulled
  shouldReconnect,    \* client: shouldReconnect
  identified,         \* client: identified.value
  lastIdentity,       \* client: lastIdentity, a user or NULL
  pendingIdentify,    \* client: pendingIdentify, a user or NULL
  lastCampaignId,     \* client: lastCampaignId, a campaign id or NULL
  out,                \* client: the socket.send calls of its last step, in call order
  playbackState,      \* page: playbackState.value
  clientNow,          \* page: Date.now() of the browser, in ms
  el,                 \* page: the media element: kind "none" while mediaElement or
                      \*   currentAsset is null, else the asset type; currentTime in ms; paused
  syncs,              \* page: the syncPlayback passes of its last step (history)
  animatedLayerVolumes,  \* page: animatedLayerVolumes.value, in thousandths
  fadeAnimationFrame,    \* page: a frame of animateFade is requested
  lastFadeTime,          \* page: lastFadeTime, in ms
  frameTime,             \* page: the timestamp of the last animation frame, in ms
  clients                \* the page behind each server connection: its playbackState.value
                         \*   and miniAppState.value, written when a message is delivered

identityVars == <<identified, lastIdentity, pendingIdentify, lastCampaignId>>

socketVars == <<ws, sockets, connected, reconnecting, error, reconnectAttempts,
                reconnectTimeout, orphanTimers, shouldReconnect, identityVars, out>>

syncVars == <<clientNow, el, syncs>>

fadeVars == <<animatedLayerVolumes, fadeAnimationFrame, lastFadeTime, frameTime>>

pageVars == <<playbackState, syncVars, fadeVars>>

\* clients is written by the delivery of the server's messages only: both
\* groups carry it, so that the handlers of either side leave it alone.
clientVars == <<socketVars, pageVars, clients>>

serverVars == <<now, connections, wsdata, rooms, heap, pending, storage, sent, last, clients>>

vars == <<serverVars, clientVars>>

\* --------------------------------------------------------------- helpers
SocketNames == <<"s1", "s2", "s3", "s4">>
SocketIds == {SocketNames[i] : i \in 1..MaxSockets}  \* the client's WebSocket objects

\* JavaScript truthiness of a string-or-null value, as tested by `if (x)`.
Truthy(s) == s # NULL /\ s # ""

Range(f) == {f[x] : x \in DOMAIN f}

\* Array.prototype.indexOf, 1-based; 0 when absent (JS: -1).
IndexOf(s, x) ==
  IF \E i \in 1..Len(s) : s[i] = x
  THEN CHOOSE i \in 1..Len(s) : s[i] = x /\ \A j \in 1..(i - 1) : s[j] # x
  ELSE 0

\* Array.prototype.includes
Includes(s, x) == \E i \in 1..Len(s) : s[i] = x

\* The arrangements of s: every bijection of its positions.
Perms(s) ==
  {[i \in 1..Len(s) |-> s[f[i]]] :
     f \in {g \in [1..Len(s) -> 1..Len(s)] :
              \A i, j \in 1..Len(s) : g[i] = g[j] => i = j}}

NotFound == [found |-> FALSE, assetIds |-> <<>>]
File(list) == [found |-> TRUE, assetIds |-> list]

getDefaultPlaybackState(t) ==
  [assetId |-> NULL, playing |-> FALSE, currentTime |-> 0, timestamp |-> t,
   playlistId |-> NULL, playlistIndex |-> -1, playlistLength |-> 0,
   loop |-> FALSE, shuffle |-> FALSE, nextAssetId |-> NULL]

getDefaultMiniAppState == [enabledApps |-> <<>>, appStates |-> <<>>]

NewRoom(campaignId, t) ==
  [campaignId |-> campaignId, playback |-> getDefaultPlaybackState(t),
   connections |-> {}, users |-> <<>>, playlistOrder |-> <<>>,
   miniApps |-> getDefaultMiniAppState]

createWebSocketData == [campaignId |-> NULL, user |-> NULL]

\* Map.set / Map.delete on room.users, a Map from connection id to user that
\* keeps insertion order.
UsersSet(us, c, u) ==
  IF \E i \in 1..Len(us) : us[i].conn = c
  THEN [i \in 1..Len(us) |-> IF us[i].conn = c THEN [conn |-> c, user |-> u] ELSE us[i]]
  ELSE Append(us, [conn |-> c, user |-> u])

UsersDelete(us, c) == SelectSeq(us, LAMBDA e : e.conn # c)

UsersValues(us) == [i \in 1..Len(us) |-> us[i].user]

\* The least object id not in use.
FreshObj(h) == CHOOSE o \in ObjIds \ DOMAIN h : \A o2 \in ObjIds \ DOMAIN h : o <= o2

\* Room objects that neither the registry nor a continuation refers to are
\* garbage.
Collect(h, r, p) ==
  [o \in {x \in DOMAIN h : x \in Range(r) \/ \E i \in 1..Len(p) : p[i].obj = x} |-> h[o]]

\* One event of `sent`: a message handed to ws.send for each socket in `to`.
Event(to, msg) == [to |-> to, msg |-> msg]

\* send(ws, message)
send(c, msg) == <<Event({c}, msg)>>

\* broadcast(campaignId, message, excludeConnectionId) against registry r and
\* objects h with open sockets cs: nothing when the room is not registered.
broadcast(r, h, cs, campaignId, msg, exclude) ==
  IF campaignId \in DOMAIN r
  THEN <<Event({c \in h[r[campaignId]].connections : c # exclude /\ c \in cs}, msg)>>
  ELSE <<>>

ErrorMsg(text) == [type |-> "error", message |-> text]
\* Variant of PlaybackStateMsg: sent under the type of the other class.
PlaybackStateMsgAsQueueUpdated(pb) == [type |-> "queue-updated", playback |-> pb]

PlaybackStateMsg(pb) == [type |-> "playback-state", playback |-> pb]
\* Variant of QueueUpdatedMsg: sent under the type of the other class.
QueueUpdatedMsgAsPlaybackState(pb) == [type |-> "playback-state", playback |-> pb]

QueueUpdatedMsg(pb) == [type |-> "queue-updated", playback |-> pb]

\* The history record: handler, issuing connection, its argument, and the
\* room object a continuation acted on (0 when it is not a continuation).
\* run counts the consecutive next commands of a run (see RunStart), took is
\* the queued asset a next command consumed.
OpOn(name, c, arg, o) ==
  [op |-> name, conn |-> c, arg |-> arg, obj |-> o, run |-> 0, took |-> NULL]
Op(name, c, arg) == OpOn(name, c, arg, 0)

\* The playlist files found on disk at start: campaign c1 has the playlist
\* p1 of MaxTracks tracks and the one-track playlist p3, every campaign has
\* the empty playlist p2; all else is missing.
InitialStorage ==
  [k \in Campaigns |->
     [p \in PlaylistIds |->
        IF k = "c1" /\ p = "p1" THEN File(SubSeq(AssetNames, 1, MaxTracks))
        ELSE IF k = "c1" /\ p = "p3" THEN File(<<AssetNames[1]>>)
        ELSE IF p = "p2" THEN File(<<>>)
        ELSE NotFound]]

\* The position a client shows at time t, in milliseconds: currentTime is in
\* seconds, the clock and timestamp in milliseconds, and a client adds
\* (Date.now() - timestamp) / 1000 to currentTime while playing.
MsPerSecond == 1000
displayedPosition(pb, t) ==
  MsPerSecond * pb.currentTime + (IF pb.playing THEN t - pb.timestamp ELSE 0)

\* ------------------------------------------------------------------ Init
\* The initial playbackState of useWebSocket.ts; the mix of a layered
\* playlist is layerVolumes, from asset id to target volume in thousandths.
ClientDefaultPlaybackState ==
  [assetId |-> NULL, playing |-> FALSE, currentTime |-> 0, timestamp |-> 0,
   playlistId |-> NULL, playlistType |-> "sequential", playlistIndex |-> -1,
   playlistLength |-> 0, loop |-> FALSE, shuffle |-> FALSE, nextAssetId |-> NULL,
   layerVolumes |-> <<>>]

\* The initial miniAppState of useWebSocket.ts.
ClientDefaultMiniAppState == [enabledApps |-> <<>>, appStates |-> <<>>]

Init ==
  /\ now = 0
  /\ connections = {}
  /\ wsdata = [c \in Conns |-> createWebSocketData]
  /\ rooms = <<>>
  /\ heap = <<>>
  /\ pending = <<>>
  /\ storage = InitialStorage
  /\ sent = <<>>
  /\ last = Op("init", NULL, NULL)
  /\ ws = NULL
  /\ sockets = [s \in SocketIds |-> "none"]
  /\ connected = FALSE
  /\ reconnecting = FALSE
  /\ error = NULL
  /\ reconnectAttempts = 0
  /\ reconnectTimeout = <<>>
  /\ orphanTimers = 0
  /\ shouldReconnect = FALSE
  /\ identified = FALSE
  /\ lastIdentity = NULL
  /\ pendingIdentify = NULL
  /\ lastCampaignId = NULL
  /\ out = <<>>
  /\ playbackState = ClientDefaultPlaybackState
  /\ clientNow = 0
  /\ el = [kind |-> "none", currentTime |-> 0, paused |-> TRUE]
  /\ syncs = 0
  /\ animatedLayerVolumes = <<>>
  /\ fadeAnimationFrame = FALSE
  /\ lastFadeTime = 0
  /\ frameTime = 0
  /\ clients = [c \in Conns |-> [playbackState |-> ClientDefaultPlaybackState,
                                 miniAppState |-> ClientDefaultMiniAppState]]

\* ------------------------------------------------- environment: the clock
Tick ==
  /\ now < MaxTime
  /\ now' = now + 1
  /\ UNCHANGED <<clientVars, connections, wsdata, rooms, heap, pending, storage, sent, last>>

\* ------------------------------------------ environment: the playlist store
\* broadcastPlaylistsUpdated(campaignId)
broadcastPlaylistsUpdated(k) ==
  broadcast(rooms, heap, connections, k, [type |-> "playlists-updated", campaignId |-> k], NULL)

\* PUT /api/campaigns/:campaignId/playlists/:playlistId with new assetIds:
\* updatePlaylist rewrites the file of an existing playlist, and the route
\* then tells the room.
UpdatePlaylist(k, p, list) ==
  /\ storage[k][p].found
  /\ storage[k][p].assetIds # list
  /\ storage' = [storage EXCEPT ![k][p] = File(list)]
  /\ sent' = broadcastPlaylistsUpdated(k)
  /\ last' = Op("store-update", NULL, p)
  /\ UNCHANGED <<clientVars, now, connections, wsdata, rooms, heap, pending>>

\* DELETE of the same route: deletePlaylist removes the file of an existing
\* playlist, and the route then tells the room.
DeletePlaylist(k, p) ==
  /\ storage[k][p].found
  /\ storage' = [storage EXCEPT ![k][p] = NotFound]
  /\ sent' = broadcastPlaylistsUpdated(k)
  /\ last' = Op("store-delete", NULL, p)
  /\ UNCHANGED <<clientVars, now, connections, wsdata, rooms, heap, pending>>

\* ----------------------------------------------------- connection registry
\* A connection id is fresh (a new UUID) when nothing refers to it any more.
Referenced(c) ==
  \/ c \in connections
  \/ \E o \in DOMAIN heap : c \in heap[o].connections
  \/ \E i \in 1..Len(pending) : pending[i].conn = c

handleOpen(c) ==
  /\ ~Referenced(c)
  /\ connections' = connections \cup {c}
  /\ wsdata' = [wsdata EXCEPT ![c] = createWebSocketData]
  /\ sent' = <<>>
  /\ last' = Op("open", c, NULL)
  /\ UNCHANGED <<clientVars, now, rooms, heap, pending, storage>>

\* The body shared by handleLeaveCampaign and handleClose: remove connection
\* c from the room registered under k, announce an identified user's leaving,
\* drop the room when it is empty.  cs is the set of sockets still open.
\* Yields the new registry, objects and the send events.
LeaveRoom(r, h, cs, c, k, user) ==
  IF k \in DOMAIN r
  THEN LET o == r[k]
           h1 == [h EXCEPT ![o].connections = @ \ {c},
                           ![o].users = IF user # NULL THEN UsersDelete(@, c) ELSE @]
           ev == IF user # NULL
                 THEN broadcast(r, h1, cs, k, [type |-> "user-left", userId |-> user], NULL)
                 ELSE <<>>
           r1 == IF h1[o].connections = {}
                 THEN [x \in DOMAIN r \ {k} |-> r[x]]
                 ELSE r
       IN [rooms |-> r1, heap |-> h1, sent |-> ev]
  ELSE [rooms |-> r, heap |-> h, sent |-> <<>>]

handleClose(c) ==
  /\ c \in connections
  /\ connections' = connections \ {c}
  /\ LET d == wsdata[c]
         res == IF Truthy(d.campaignId)
                THEN LeaveRoom(rooms, heap, connections \ {c}, c, d.campaignId, d.user)
                ELSE [rooms |-> rooms, heap |-> heap, sent |-> <<>>]
     IN /\ rooms' = res.rooms
        /\ heap' = Collect(res.heap, res.rooms, pending)
        /\ sent' = res.sent
  /\ last' = Op("close", c, NULL)
  /\ UNCHANGED <<clientVars, now, wsdata, pending, storage>>

handleIdentify(c, u) ==
  /\ c \in connections
  /\ wsdata' = [wsdata EXCEPT ![c].user = u]
  /\ sent' = <<>>
  /\ last' = Op("identify", c, u)
  /\ UNCHANGED <<clientVars, now, connections, rooms, heap, pending, storage>>

handleLeaveCampaign(c) ==
  /\ c \in connections
  /\ LET d == wsdata[c]
     IN IF ~Truthy(d.campaignId)
        THEN /\ sent' = <<>>
             /\ UNCHANGED <<wsdata, rooms, heap>>
        ELSE LET res == LeaveRoom(rooms, heap, connections, c, d.campaignId, d.user)
             IN /\ rooms' = res.rooms
                /\ heap' = Collect(res.heap, res.rooms, pending)
                /\ sent' = res.sent
                /\ wsdata' = [wsdata EXCEPT ![c].campaignId = NULL]
  /\ last' = Op("leave-campaign", c, NULL)
  /\ UNCHANGED <<clientVars, now, connections, pending, storage>>

\* Variant of campaignJoined: the roster is left out.
campaignJoinedWithoutRoster(campaignId, room) ==
  [type |-> "campaign-joined", campaignId |-> campaignId,
   playback |-> room.playback,
   users |-> <<>>,
   miniApps |-> room.miniApps]

\* The snapshot handleJoinCampaign sends to the joiner.
campaignJoined(campaignId, room) ==
  [type |-> "campaign-joined", campaignId |-> campaignId,
   playback |-> room.playback,
   users |-> UsersValues(room.users),
   miniApps |-> room.miniApps]

handleJoinCampaign(c, k) ==
  /\ c \in connections
  /\ LET d == wsdata[c]
         left == IF Truthy(d.campaignId)
                 THEN LeaveRoom(rooms, heap, connections, c, d.campaignId, d.user)
                 ELSE [rooms |-> rooms, heap |-> heap, sent |-> <<>>]
         \* getOrCreateRoom
         o == IF k \in DOMAIN left.rooms THEN left.rooms[k] ELSE FreshObj(Collect(left.heap, left.rooms, pending))
         r1 == IF k \in DOMAIN left.rooms THEN left.rooms ELSE (k :> o) @@ left.rooms
         h0 == IF k \in DOMAIN left.rooms THEN left.heap
               ELSE (o :> NewRoom(k, now)) @@ Collect(left.heap, left.rooms, pending)
         h1 == [h0 EXCEPT ![o].connections = @ \cup {c},
                          ![o].users = IF d.user # NULL THEN UsersSet(@, c, d.user) ELSE @]
         joined == IF d.user # NULL
                   THEN broadcast(r1, h1, connections, k, [type |-> "user-joined", user |-> d.user], c)
                   ELSE <<>>
         snapshot == send(c, campaignJoined(k, h1[o]))
     IN /\ rooms' = r1
        /\ heap' = Collect(h1, r1, pending)
        /\ wsdata' = [wsdata EXCEPT ![c].campaignId = k]
        /\ sent' = left.sent \o joined \o snapshot
  /\ last' = Op("join-campaign", c, k)
  /\ UNCHANGED <<clientVars, now, connections, pending, storage>>

\* ------------------------------------------------ playback state machine
At(s, i) == IF i + 1 \in 1..Len(s) THEN s[i + 1] ELSE NULL   \* array[i], 0-based
JsIndexOf(s, x) == IndexOf(s, x) - 1                         \* -1 when absent

\* shuffleArray: Fisher-Yates with Math.random can return any arrangement.
shuffleArray(s) == Perms(s)

\* Variant of notInCampaign: the error goes to every open socket.
notInCampaignToAll(c, name, arg) ==
  /\ sent' = <<Event(connections, ErrorMsg("Not in a campaign"))>>
  /\ last' = Op(name, c, arg)
  /\ UNCHANGED <<clientVars, now, connections, wsdata, rooms, heap, pending, storage>>

\* The early return shared by every command handler.
notInCampaign(c, name, arg) ==
  /\ sent' = send(c, ErrorMsg("Not in a campaign"))
  /\ last' = Op(name, c, arg)
  /\ UNCHANGED <<clientVars, now, connections, wsdata, rooms, heap, pending, storage>>

\* A return that sends nothing: `if (!room) return` and the like.
returnSilently(c, name, arg) ==
  /\ sent' = <<>>
  /\ last' = Op(name, c, arg)
  /\ UNCHANGED <<clientVars, now, connections, wsdata, rooms, heap, pending, storage>>

\* Variant of applyToRoom: only the first message is broadcast.
applyToRoomFirstOnly(c, op, room1, msgs) ==
  LET k == wsdata[c].campaignId
      h1 == [heap EXCEPT ![rooms[k]] = room1]
  IN /\ heap' = h1
     /\ sent' = broadcast(rooms, h1, connections, k, msgs[1], NULL)
     /\ last' = op
     /\ UNCHANGED <<clientVars, now, connections, wsdata, rooms, pending, storage>>

\* A synchronous handler that replaces the room object by room1 and then
\* broadcasts each message of msgs to the room.
applyToRoom(c, op, room1, msgs) ==
  LET k == wsdata[c].campaignId
      h1 == [heap EXCEPT ![rooms[k]] = room1]
  IN /\ heap' = h1
     /\ sent' = [i \in 1..Len(msgs) |-> broadcast(rooms, h1, connections, k, msgs[i], NULL)[1]]
     /\ last' = op
     /\ UNCHANGED <<clientVars, now, connections, wsdata, rooms, pending, storage>>

\* advancePlaylist takes the queued asset iff it goes forward over a
\* non-empty order with a queued asset set.
TakesQueued(room, direction) ==
  Len(room.playlistOrder) # 0 /\ direction = 1 /\ Truthy(room.playback.nextAssetId)

\* Variant of takeQueued: the index is not looked up.
takeQueuedKeepsIndex(room, t) ==
  [room EXCEPT !.playback.assetId = room.playback.nextAssetId,
               !.playback.nextAssetId = NULL,
               !.playback.currentTime = 0,
               !.playback.timestamp = t]

\* The branch of advancePlaylist that plays the queued asset.
takeQueued(room, t) ==
  LET pb == room.playback
      idx == JsIndexOf(room.playlistOrder, pb.nextAssetId)
  IN [room EXCEPT !.playback.assetId = pb.nextAssetId,
                  !.playback.nextAssetId = NULL,
                  !.playback.playlistIndex = IF idx >= 0 THEN idx ELSE pb.playlistIndex,
                  !.playback.currentTime = 0,
                  !.playback.timestamp = t]

\* Variant of newIndexOf: an overflow with loop on stays on the last track.
newIndexOfClamped(index, direction, len, loop) ==
  LET raw == index + direction
  IN IF raw >= len THEN len - 1
     ELSE IF raw < 0 THEN (IF loop THEN len - 1 ELSE 0)
     ELSE raw

\* The index advancePlaylist moves to when it does not stop.
newIndexOf(index, direction, len, loop) ==
  LET raw == index + direction
  IN IF raw >= len THEN 0
     ELSE IF raw < 0 THEN (IF loop THEN len - 1 ELSE 0)
     ELSE raw

\* Variant of advancePlaylist: an overflow wraps to the first track whether
\* loop is on or not.
advancePlaylistAlwaysWraps(room, direction, t) ==
  LET pb == room.playback
      order == room.playlistOrder
  IN IF Len(order) = 0 THEN room
     ELSE IF TakesQueued(room, direction)
     THEN takeQueued(room, t)
     ELSE LET newIndex == newIndexOf(pb.playlistIndex, direction, Len(order), TRUE)
          IN [room EXCEPT !.playback.playlistIndex = newIndex,
                          !.playback.assetId = At(order, newIndex),
                          !.playback.currentTime = 0,
                          !.playback.timestamp = t]

advancePlaylist(room, direction, t) ==
  LET pb == room.playback
      order == room.playlistOrder
  IN IF Len(order) = 0 THEN room
     ELSE IF TakesQueued(room, direction)
     THEN takeQueued(room, t)
     ELSE LET stop == pb.playlistIndex + direction >= Len(order) /\ ~pb.loop
              newIndex == newIndexOf(pb.playlistIndex, direction, Len(order), pb.loop)
          IN IF stop
             THEN [room EXCEPT !.playback.playing = FALSE,
                               !.playback.timestamp = t]
             ELSE [room EXCEPT !.playback.playlistIndex = newIndex,
                               !.playback.assetId = At(order, newIndex),
                               !.playback.currentTime = 0,
                               !.playback.timestamp = t]

\* The switch of handlePlaybackCommand.  hasTime: the message carries a
\* numeric `time`.
playbackCommand(room, command, hasTime, time, t) ==
  CASE command = "play" ->
         [room EXCEPT !.playback.playing = TRUE, !.playback.timestamp = t]
    [] command = "pause" ->
         [room EXCEPT !.playback.playing = FALSE, !.playback.timestamp = t]
    [] command = "seek" ->
         IF hasTime
         THEN [room EXCEPT !.playback.currentTime = time, !.playback.timestamp = t]
         ELSE room
    [] command = "next" -> advancePlaylist(room, 1, t)
    [] command = "prev" -> advancePlaylist(room, -1, t)

\* History of a run of next commands: a run starts at the first track of an
\* active playlist with loop off and nothing queued.
RunStart(room) ==
  /\ Truthy(room.playback.playlistId)
  /\ Len(room.playlistOrder) >= 1
  /\ room.playback.playlistIndex = 0
  /\ room.playback.assetId = room.playlistOrder[1]
  /\ ~room.playback.loop
  /\ ~Truthy(room.playback.nextAssetId)

RunAfter(room, command) ==
  IF command # "next" THEN 0
  ELSE IF /\ last.run >= 1
          /\ last.run < Len(room.playlistOrder)
          /\ wsdata[last.conn].campaignId = room.campaignId
       THEN last.run + 1
  ELSE IF RunStart(room) THEN 1 ELSE 0

handlePlaybackCommand(c, command, hasTime, time) ==
  /\ c \in connections
  /\ LET k == wsdata[c].campaignId
     IN IF ~Truthy(k) THEN notInCampaign(c, "playback-command", command)
        ELSE IF k \notin DOMAIN rooms THEN returnSilently(c, "playback-command", command)
        ELSE LET room == heap[rooms[k]]
                 room1 == playbackCommand(room, command, hasTime, time, now)
                 op == [Op("playback-command", c, command) EXCEPT
                          !.run = RunAfter(room, command),
                          !.took = IF command = "next" /\ TakesQueued(room, 1)
                                   THEN room.playback.nextAssetId ELSE NULL]
             IN applyToRoom(c, op, room1, <<PlaybackStateMsg(room1.playback)>>)

clearPlaylist(room) ==
  [room EXCEPT !.playback.playlistId = NULL,
               !.playback.playlistIndex = -1,
               !.playback.playlistLength = 0,
               !.playback.nextAssetId = NULL,
               !.playlistOrder = <<>>]

selectAsset(room, assetId, t) ==
  [clearPlaylist(room) EXCEPT !.playback.assetId = assetId,
                              !.playback.playing = FALSE,
                              !.playback.currentTime = 0,
                              !.playback.timestamp = t]

handleAssetSelect(c, assetId) ==
  /\ c \in connections
  /\ LET k == wsdata[c].campaignId
     IN IF ~Truthy(k) THEN notInCampaign(c, "asset-select", assetId)
        ELSE IF k \notin DOMAIN rooms THEN returnSilently(c, "asset-select", assetId)
        ELSE LET room1 == selectAsset(heap[rooms[k]], assetId, now)
             IN applyToRoom(c, Op("asset-select", c, assetId), room1,
                            <<[type |-> "asset-selected", assetId |-> assetId],
                              PlaybackStateMsg(room1.playback)>>)

handlePlaylistStop(c) ==
  /\ c \in connections
  /\ LET k == wsdata[c].campaignId
     IN IF ~Truthy(k) THEN notInCampaign(c, "playlist-stop", NULL)
        ELSE IF k \notin DOMAIN rooms THEN returnSilently(c, "playlist-stop", NULL)
        ELSE LET room1 == selectAsset(heap[rooms[k]], NULL, now)
             IN applyToRoom(c, Op("playlist-stop", c, NULL), room1,
                            <<PlaybackStateMsg(room1.playback)>>)

handleQueueAsset(c, assetId) ==
  /\ c \in connections
  /\ LET k == wsdata[c].campaignId
     IN IF ~Truthy(k) THEN notInCampaign(c, "queue-asset", assetId)
        ELSE IF k \notin DOMAIN rooms THEN returnSilently(c, "queue-asset", assetId)
        ELSE LET room1 == [heap[rooms[k]] EXCEPT !.playback.nextAssetId = assetId]
             IN applyToRoom(c, Op("queue-asset", c, assetId), room1,
                            <<QueueUpdatedMsg(room1.playback)>>)

queueJump(room, assetId, t) ==
  LET index == JsIndexOf(room.playlistOrder, assetId)
  IN IF index >= 0
     THEN [room EXCEPT !.playback.playlistIndex = index,
                       !.playback.assetId = assetId,
                       !.playback.nextAssetId = NULL,
                       !.playback.currentTime = 0,
                       !.playback.playing = TRUE,
                       !.playback.timestamp = t]
     ELSE room

handleQueueJump(c, assetId) ==
  /\ c \in connections
  /\ LET k == wsdata[c].campaignId
     IN IF ~Truthy(k) THEN notInCampaign(c, "queue-jump", assetId)
        ELSE IF k \notin DOMAIN rooms THEN returnSilently(c, "queue-jump", assetId)
        ELSE LET room1 == queueJump(heap[rooms[k]], assetId, now)
             IN applyToRoom(c, Op("queue-jump", c, assetId), room1,
                            <<PlaybackStateMsg(room1.playback)>>)

\* ------------------------------------------- handlers that await a lookup
Remove(p, i) == [j \in 1..(Len(p) - 1) |-> IF j < i THEN p[j] ELSE p[j + 1]]

Continuation(kind, c, k, o, playlistId, shuffle) ==
  [kind |-> kind, conn |-> c, campaignId |-> k, obj |-> o,
   playlistId |-> playlistId, shuffle |-> shuffle]

\* handlePlaylistPlay up to `await playlistService.getPlaylist(...)`.
handlePlaylistPlay(c, playlistId) ==
  /\ c \in connections
  /\ LET k == wsdata[c].campaignId
     IN IF ~Truthy(k) THEN notInCampaign(c, "playlist-play", playlistId)
        ELSE IF k \notin DOMAIN rooms THEN returnSilently(c, "playlist-play", playlistId)
        ELSE /\ Len(pending) < MaxPending
             /\ pending' = Append(pending, Continuation("play", c, k, rooms[k], playlistId, FALSE))
             /\ sent' = <<>>
             /\ last' = Op("playlist-play", c, playlistId)
             /\ UNCHANGED <<clientVars, now, connections, wsdata, rooms, heap, storage>>

\* playlistService.getPlaylist: the file as it is when the lookup returns.
getPlaylist(campaignId, playlistId) == storage[campaignId][playlistId]

\* Variant of Playable: the length of the playlist is not tested.
PlayableWhenFound(playlist) == playlist.found

\* `!playlist || playlist.assetIds.length === 0` is false.
Playable(playlist) == playlist.found /\ Len(playlist.assetIds) # 0

\* Variant of startPlaylist: the queued asset survives the start.
startPlaylistKeepsQueued(room, playlistId, list, order, t) ==
  [room EXCEPT !.playback.playlistId = playlistId,
               !.playback.playlistLength = Len(list),
               !.playlistOrder = order,
               !.playback.playlistIndex = 0,
               !.playback.assetId = At(order, 0),
               !.playback.playing = TRUE,
               !.playback.currentTime = 0,
               !.playback.timestamp = t]

\* The assignments of handlePlaylistPlay once the playlist is known.
startPlaylist(room, playlistId, list, order, t) ==
  [room EXCEPT !.playback.playlistId = playlistId,
               !.playback.playlistLength = Len(list),
               !.playback.nextAssetId = NULL,
               !.playlistOrder = order,
               !.playback.playlistIndex = 0,
               !.playback.assetId = At(order, 0),
               !.playback.playing = TRUE,
               !.playback.currentTime = 0,
               !.playback.timestamp = t]

\* handlePlaylistPlay after the await.
playlistPlayResume(i) ==
  /\ i \in 1..Len(pending)
  /\ pending[i].kind = "play"
  /\ LET p == pending[i]
         room == heap[p.obj]
         playlist == getPlaylist(p.campaignId, p.playlistId)
         list == playlist.assetIds
     IN /\ pending' = Remove(pending, i)
        /\ last' = OpOn("playlist-play-resume", p.conn, p.playlistId, p.obj)
        /\ IF ~Playable(playlist)
           THEN /\ sent' = send(p.conn, ErrorMsg("Playlist not found or empty"))
                /\ heap' = Collect(heap, rooms, pending')
           ELSE \E order \in (IF room.playback.shuffle THEN shuffleArray(list) ELSE {list}) :
                  LET room1 == startPlaylist(room, p.playlistId, list, order, now)
                      h1 == [heap EXCEPT ![p.obj] = room1]
                  IN /\ sent' = broadcast(rooms, h1, connections, p.campaignId,
                                          PlaybackStateMsg(room1.playback), NULL)
                     /\ heap' = Collect(h1, rooms, pending')
  /\ UNCHANGED <<clientVars, now, connections, wsdata, rooms, storage>>

\* An optional boolean of a message: "absent", "true" or "false".
OptBool == {"absent", "true", "false"}
IsBool(x) == x # "absent"
BoolOf(x) == x = "true"

\* The flag assignments of handlePlaylistSettings.
applySettings(room, loop, shuffle) ==
  [room EXCEPT !.playback.loop = IF IsBool(loop) THEN BoolOf(loop) ELSE @,
               !.playback.shuffle = IF IsBool(shuffle) THEN BoolOf(shuffle) ELSE @]

\* The condition under which handlePlaylistSettings looks the playlist up.
NeedsRebuild(room, shuffle) ==
  /\ IsBool(shuffle)
  /\ room.playback.shuffle # BoolOf(shuffle)
  /\ Truthy(room.playback.playlistId)
  /\ Len(room.playlistOrder) > 0

\* handlePlaylistSettings up to the await, or to its end when it does not
\* await.
handlePlaylistSettings(c, loop, shuffle) ==
  /\ c \in connections
  /\ LET k == wsdata[c].campaignId
     IN IF ~Truthy(k) THEN notInCampaign(c, "playlist-settings", shuffle)
        ELSE IF k \notin DOMAIN rooms THEN returnSilently(c, "playlist-settings", shuffle)
        ELSE LET room == heap[rooms[k]]
                 room1 == applySettings(room, loop, shuffle)
             IN IF NeedsRebuild(room, shuffle)
                THEN /\ Len(pending) < MaxPending
                     /\ pending' = Append(pending,
                                     Continuation("settings", c, k, rooms[k],
                                                  room.playback.playlistId, BoolOf(shuffle)))
                     /\ heap' = [heap EXCEPT ![rooms[k]] = room1]
                     /\ sent' = <<>>
                     /\ last' = Op("playlist-settings", c, shuffle)
                     /\ UNCHANGED <<clientVars, now, connections, wsdata, rooms, storage>>
                ELSE applyToRoom(c, Op("playlist-settings", c, shuffle), room1,
                                 <<QueueUpdatedMsg(room1.playback)>>)

\* Variant of rebuildOrder: the index is not recomputed.
rebuildOrderKeepsIndex(room, order) ==
  [room EXCEPT !.playlistOrder = order]

\* The rebuild of handlePlaylistSettings: the new order and the index of
\* the current asset in it.
rebuildOrder(room, order) ==
  LET newIndex == JsIndexOf(order, room.playback.assetId)
  IN [room EXCEPT !.playlistOrder = order,
                  !.playback.playlistIndex = IF newIndex >= 0 THEN newIndex ELSE 0]

\* handlePlaylistSettings after the await.
playlistSettingsResume(i) ==
  /\ i \in 1..Len(pending)
  /\ pending[i].kind = "settings"
  /\ LET p == pending[i]
         room == heap[p.obj]
         playlist == getPlaylist(p.campaignId, p.playlistId)
         list == playlist.assetIds
     IN /\ pending' = Remove(pending, i)
        /\ last' = OpOn("playlist-settings-resume", p.conn, p.playlistId, p.obj)
        /\ \E order \in (IF ~playlist.found THEN {room.playlistOrder}
                         ELSE IF p.shuffle THEN shuffleArray(list) ELSE {list}) :
             LET room1 == IF playlist.found THEN rebuildOrder(room, order) ELSE room
                 h1 == [heap EXCEPT ![p.obj] = room1]
             IN /\ sent' = broadcast(rooms, h1, connections, p.campaignId,
                                     QueueUpdatedMsg(room1.playback), NULL)
                /\ heap' = Collect(h1, rooms, pending')
  /\ UNCHANGED <<clientVars, now, connections, wsdata, rooms, storage>>

\* ------------------------------------------------------ mini-app dispatch
\* defaultAppStates[appId] ?? {} : the empty object is the empty function.
defaultAppStates(appId) ==
  CASE appId = "media-display" -> [assetId |-> NULL]
    [] appId = "quiz" ->
         [phase |-> "idle", question |-> "", options |-> <<>>, correctIndex |-> 0,
          answers |-> <<>>, timeLimit |-> 15, startTime |-> 0]
    [] appId = "blackjack" ->
         [phase |-> "idle", players |-> <<>>, dealer |-> [hand |-> <<>>, hidden |-> TRUE],
          currentPlayerIndex |-> 0, deck |-> <<>>]
    [] OTHER -> <<>>

reduceMediaDisplay(state, action, payload) ==
  CASE action = "set-asset" -> ("assetId" :> payload) @@ state
    [] action = "clear" -> ("assetId" :> NULL) @@ state
    [] OTHER -> state

MiniAppActions == {"set-asset", "clear", "other"}

\* ------------------------------------------------------------------ quiz
\* Variant of canReveal: the results may be revealed in every phase.
canRevealAlways(phase) == TRUE

\* The guard of reveal-results: s.phase === 'question'.
canReveal(phase) == phase = "question"

\* Variant of alreadyAnswered: nobody has answered yet.
alreadyAnsweredNever(answers, user) == FALSE

\* s.answers.some(a => a.oderId === user.id)
alreadyAnswered(answers, user) == \E i \in 1..Len(answers) : answers[i].oderId = user

\* The payload of a message that carries none (undefined).
NoPayload == [missing |-> TRUE]

\* reduceQuiz(state, action, payload, user) at Date.now() = t. A missing
\* user is NULL; user stands for user.id and user.username.
reduceQuiz(s, action, payload, user, t) ==
  CASE action = "start-question" ->
         IF payload = NoPayload THEN s
         ELSE [s EXCEPT !.phase = "question", !.question = payload.question,
                        !.options = payload.options, !.correctIndex = payload.correctIndex,
                        !.timeLimit = payload.timeLimit, !.startTime = t, !.answers = <<>>]
    [] action = "submit-answer" ->
         IF payload = NoPayload \/ user = NULL \/ s.phase # "question" THEN s
         ELSE IF alreadyAnswered(s.answers, user) THEN s
         ELSE [s EXCEPT !.answers = Append(@, [oderId |-> user, username |-> user,
                                               answerIndex |-> payload.answerIndex,
                                               timestamp |-> t])]
    [] action = "reveal-results" ->
         IF ~canReveal(s.phase) THEN s ELSE [s EXCEPT !.phase = "results"]
    [] action = "reset" ->
         [s EXCEPT !.phase = "idle", !.question = "", !.options = <<>>,
                   !.correctIndex = 0, !.answers = <<>>, !.startTime = 0]
    [] OTHER -> s

\* ------------------------------------------------------------- card game
\* A card is its rank; the suit is never read. A draw from an empty deck
\* yields undefined.
UNDEFINED == "undefined"

\* The value createDeck gives each rank.
RankValue ==
  ("A" :> 11) @@ ("2" :> 2) @@ ("3" :> 3) @@ ("4" :> 4) @@ ("5" :> 5) @@ ("6" :> 6)
  @@ ("7" :> 7) @@ ("8" :> 8) @@ ("9" :> 9) @@ ("10" :> 10) @@ ("J" :> 10)
  @@ ("Q" :> 10) @@ ("K" :> 10)

\* createDeck(), cut down to seven cards of four ranks.
createDeck == <<"A", "A", "K", "K", "9", "6", "6">>

\* shuffleDeck(deck): every order the random swaps can produce.
shuffleDeck(deck) ==
  {[i \in 1..Len(deck) |-> deck[p[i]]] : p \in Permutations(1..Len(deck))}

\* Reading card.rank of undefined throws a TypeError.
handThrows(hand) == \E i \in 1..Len(hand) : hand[i] = UNDEFINED

RECURSIVE rawHandValue(_)
rawHandValue(hand) ==
  IF hand = <<>> THEN 0 ELSE RankValue[Head(hand)] + rawHandValue(Tail(hand))

RECURSIVE softenAces(_, _)
softenAces(value, aces) ==
  IF value > 21 /\ aces > 0 THEN softenAces(value - 10, aces - 1) ELSE value

\* Variant of calculateBlackjackHandValue: an ace always counts 11.
calculateBlackjackHandValueHardAces(hand) == rawHandValue(hand)

\* calculateBlackjackHandValue(hand) of a hand without undefined.
calculateBlackjackHandValue(hand) ==
  softenAces(rawHandValue(hand), Cardinality({i \in 1..Len(hand) : hand[i] = "A"}))

\* drawBlackjackCard(deck): pop() takes the last card.
drawBlackjackCard(deck) ==
  IF deck = <<>> THEN [card |-> UNDEFINED, deck |-> <<>>]
  ELSE [card |-> deck[Len(deck)], deck |-> SubSeq(deck, 1, Len(deck) - 1)]

\* The result of a reducer call: the state returned, or thrown with the
\* state the call was given.
Returns(state) == [thrown |-> FALSE, state |-> state]
Throws(state) == [thrown |-> TRUE, state |-> state]

\* while (calculateBlackjackHandValue(dealerHand) < 17) draw.
RECURSIVE dealerPlays(_, _)
dealerPlays(hand, deck) ==
  IF handThrows(hand) THEN [thrown |-> TRUE, hand |-> hand, deck |-> deck]
  ELSE IF calculateBlackjackHandValue(hand) < 17
       THEN LET draw == drawBlackjackCard(deck)
            IN dealerPlays(Append(hand, draw.card), draw.deck)
       ELSE [thrown |-> FALSE, hand |-> hand, deck |-> deck]

\* The while loop that skips resolved players, on 0-based index i.
RECURSIVE nextPlaying(_, _)
nextPlaying(players, i) ==
  IF i < Len(players) /\ players[i + 1].status # "playing"
  THEN nextPlaying(players, i + 1) ELSE i

allDone(players) == \A i \in 1..Len(players) : players[i].status # "playing"

\* The tail shared by deal, hit and stand: the dealer plays when all
\* players are done.
finishOrContinue(s, players, dealer, deck, currentPlayerIndex, phase) ==
  IF allDone(players)
  THEN LET d == dealerPlays(dealer.hand, deck)
       IN IF d.thrown THEN Throws(s)
          ELSE Returns([s EXCEPT !.phase = "results", !.players = players,
                                 !.dealer = [hand |-> d.hand, hidden |-> FALSE],
                                 !.deck = d.deck,
                                 !.currentPlayerIndex = currentPlayerIndex])
  ELSE Returns([s EXCEPT !.phase = phase, !.players = players, !.dealer = dealer,
                         !.deck = deck, !.currentPlayerIndex = currentPlayerIndex])

\* Variant of firstActive: the first seat has the first turn.
firstActiveIsSeatZero(players) == 0

\* "Find first active player": the index of the first player of the deal
\* that is still playing.
firstActive(players) == nextPlaying(players, 0)

\* The j-th card drawn from deck, undefined when the deck has run out.
drawn(deck, j) == IF j <= Len(deck) THEN deck[Len(deck) - j + 1] ELSE UNDEFINED

\* case 'deal': two rounds of one card to each player and then the dealer.
deal(s) ==
  IF s.phase # "joining" \/ Len(s.players) = 0 THEN Returns(s)
  ELSE LET n == Len(s.players)
           hands == [i \in 1..n |-> <<drawn(s.deck, i), drawn(s.deck, n + 1 + i)>>]
           dealer == [hand |-> <<drawn(s.deck, n + 1), drawn(s.deck, 2 * (n + 1))>>,
                      hidden |-> TRUE]
           deck == IF Len(s.deck) > 2 * (n + 1)
                   THEN SubSeq(s.deck, 1, Len(s.deck) - 2 * (n + 1)) ELSE <<>>
           players == [i \in 1..n |->
                         [s.players[i] EXCEPT
                            !.hand = hands[i],
                            !.status = IF ~handThrows(hands[i])
                                          /\ calculateBlackjackHandValue(hands[i]) = 21
                                       THEN "blackjack" ELSE "playing"]]
       IN IF \E i \in 1..n : handThrows(hands[i]) THEN Throws(s)
          ELSE finishOrContinue(s, players, dealer, deck, firstActive(players), "playing")

\* Variant of isTurnOf: any identified user passes.
isTurnOfAnyone(s, user) ==
  /\ s.phase = "playing"
  /\ user # NULL
  /\ s.currentPlayerIndex < Len(s.players)
  /\ s.players[s.currentPlayerIndex + 1].status = "playing"

\* The guards shared by hit and stand.
isTurnOf(s, user) ==
  /\ s.phase = "playing"
  /\ user # NULL
  /\ s.currentPlayerIndex < Len(s.players)
  /\ s.players[s.currentPlayerIndex + 1].oderId = user
  /\ s.players[s.currentPlayerIndex + 1].status = "playing"

\* Variant of statusAfterHit: a hand of 21 keeps playing.
statusAfterHitNoAutoStand(value) == IF value > 21 THEN "bust" ELSE "playing"

\* newStatus of a hit that brought the hand to value.
statusAfterHit(value) ==
  IF value > 21 THEN "bust" ELSE IF value = 21 THEN "stand" ELSE "playing"

\* case 'hit'
hit(s, user) ==
  IF ~isTurnOf(s, user) THEN Returns(s)
  ELSE LET i == s.currentPlayerIndex
           draw == drawBlackjackCard(s.deck)
           newHand == Append(s.players[i + 1].hand, draw.card)
           value == calculateBlackjackHandValue(newHand)
           newStatus == statusAfterHit(value)
           players == [s.players EXCEPT ![i + 1].hand = newHand, ![i + 1].status = newStatus]
           currentPlayerIndex == IF newStatus # "playing" THEN nextPlaying(players, i + 1) ELSE i
       IN IF handThrows(newHand) THEN Throws(s)
          ELSE finishOrContinue(s, players, s.dealer, draw.deck, currentPlayerIndex, s.phase)

\* case 'stand'
stand(s, user) ==
  IF ~isTurnOf(s, user) THEN Returns(s)
  ELSE LET i == s.currentPlayerIndex
           players == [s.players EXCEPT ![i + 1].status = "stand"]
       IN finishOrContinue(s, players, s.dealer, s.deck, nextPlaying(players, i + 1), s.phase)

\* reduceBlackjack(state, action, payload, user): the set of its outcomes.
reduceBlackjack(s, action, payload, user) ==
  CASE action = "start-round" ->
         {Returns([s EXCEPT !.phase = "joining", !.players = <<>>,
                            !.dealer = [hand |-> <<>>, hidden |-> TRUE],
                            !.currentPlayerIndex = 0, !.deck = deck]) :
            deck \in shuffleDeck(createDeck)}
    [] action = "join" ->
         IF s.phase # "joining" \/ user = NULL THEN {Returns(s)}
         ELSE IF \E i \in 1..Len(s.players) : s.players[i].oderId = user THEN {Returns(s)}
         ELSE {Returns([s EXCEPT !.players =
                          Append(@, [oderId |-> user, username |-> user,
                                     hand |-> <<>>, status |-> "playing"])])}
    [] action = "deal" -> {deal(s)}
    [] action = "hit" -> {hit(s, user)}
    [] action = "stand" -> {stand(s, user)}
    [] action = "reset" ->
         {Returns([s EXCEPT !.phase = "idle", !.players = <<>>,
                            !.dealer = [hand |-> <<>>, hidden |-> TRUE],
                            !.currentPlayerIndex = 0, !.deck = <<>>])}
    [] OTHER -> {Returns(s)}

\* The app-specific reducers of handleMiniAppAction; the dice-roller is not
\* among the apps the specifications enable.
reduce(appId, state, action, payload, user, t) ==
  CASE appId = "media-display" -> {Returns(reduceMediaDisplay(state, action, payload))}
    [] appId = "quiz" -> {Returns(reduceQuiz(state, action, payload, user, t))}
    [] appId = "blackjack" -> reduceBlackjack(state, action, payload, user)
    [] OTHER -> {Returns(state)}


handleMiniAppEnable(c, appId) ==
  /\ c \in connections
  /\ LET k == wsdata[c].campaignId
     IN IF ~Truthy(k) THEN notInCampaign(c, "miniapp-enable", appId)
        ELSE IF k \notin DOMAIN rooms THEN returnSilently(c, "miniapp-enable", appId)
        ELSE LET room == heap[rooms[k]]
                 room1 == [room EXCEPT
                             !.miniApps.enabledApps = Append(@, appId),
                             !.miniApps.appStates =
                                IF appId \in DOMAIN @ THEN @
                                ELSE (appId :> defaultAppStates(appId)) @@ @]
             IN IF Includes(room.miniApps.enabledApps, appId)
                THEN returnSilently(c, "miniapp-enable", appId)
                ELSE applyToRoom(c, Op("miniapp-enable", c, appId), room1,
                                 <<[type |-> "miniapp-state", miniApps |-> room1.miniApps]>>)

\* Variant of disabledApps: the state of the app is dropped as well.
disabledAppsForgetsState(miniApps, appId) ==
  [enabledApps |-> SelectSeq(miniApps.enabledApps, LAMBDA a : a # appId),
   appStates |-> [a \in DOMAIN miniApps.appStates \ {appId} |-> miniApps.appStates[a]]]

\* The mini-app state after the filter of enabledApps.
disabledApps(miniApps, appId) ==
  [miniApps EXCEPT !.enabledApps = SelectSeq(@, LAMBDA a : a # appId)]

handleMiniAppDisable(c, appId) ==
  /\ c \in connections
  /\ LET k == wsdata[c].campaignId
     IN IF ~Truthy(k) THEN notInCampaign(c, "miniapp-disable", appId)
        ELSE IF k \notin DOMAIN rooms THEN returnSilently(c, "miniapp-disable", appId)
        ELSE LET room == heap[rooms[k]]
                 room1 == [room EXCEPT !.miniApps = disabledApps(@, appId)]
             IN IF ~Includes(room.miniApps.enabledApps, appId)
                THEN returnSilently(c, "miniapp-disable", appId)
                ELSE applyToRoom(c, Op("miniapp-disable", c, appId), room1,
                                 <<[type |-> "miniapp-state", miniApps |-> room1.miniApps]>>)

handleReloadPlayers(c) ==
  /\ c \in connections
  /\ LET k == wsdata[c].campaignId
     IN IF ~Truthy(k) THEN notInCampaign(c, "reload-players", NULL)
        ELSE IF k \notin DOMAIN rooms THEN returnSilently(c, "reload-players", NULL)
        ELSE /\ sent' = broadcast(rooms, heap, connections, k, [type |-> "reload"], c)
             /\ last' = Op("reload-players", c, NULL)
             /\ UNCHANGED <<clientVars, now, connections, wsdata, rooms, heap, pending, storage>>

\* Variant of appEnabled: every app passes.
appEnabledAlways(room, appId) == TRUE

\* room.miniApps.enabledApps.includes(appId)
appEnabled(room, appId) == Includes(room.miniApps.enabledApps, appId)

handleMiniAppAction(c, appId, action, payload) ==
  /\ c \in connections
  /\ LET k == wsdata[c].campaignId
     IN IF ~Truthy(k) THEN notInCampaign(c, "miniapp-action", appId)
        ELSE IF k \notin DOMAIN rooms THEN returnSilently(c, "miniapp-action", appId)
        ELSE LET room == heap[rooms[k]]
                 currentState == IF appId \in DOMAIN room.miniApps.appStates
                                 THEN room.miniApps.appStates[appId] ELSE <<>>
             IN IF ~appEnabled(room, appId)
                THEN /\ sent' = send(c, ErrorMsg("App is not enabled"))
                     /\ last' = Op("miniapp-action", c, appId)
                     /\ UNCHANGED <<clientVars, now, connections, wsdata, rooms, heap, pending, storage>>
                ELSE \E r \in reduce(appId, currentState, action, payload, wsdata[c].user, now) :
                       IF r.thrown
                       THEN \* the exception leaves the handler before the store
                            /\ sent' = <<>>
                            /\ last' = Op("miniapp-action", c, appId)
                            /\ UNCHANGED <<clientVars, now, connections, wsdata, rooms, heap, pending, storage>>
                       ELSE applyToRoom(c, Op("miniapp-action", c, appId),
                                        [room EXCEPT !.miniApps.appStates = (appId :> r.state) @@ @],
                                        <<[type |-> "miniapp-updated", appId |-> appId,
                                           state |-> r.state]>>)

\* ------------------------------------------------------------ layered mix
\* The server side of the layered mix is not in the source at hand; what
\* follows is the transition fadeToLayer as the specification gives it.
\* The stored playlists of kind layered.
LayeredPlaylists == {"p1"}

\* The target volumes after a fade to assetId: 1 for that layer, 0 for every
\* other layer of the mix.
fadeToLayer(order, assetId) == [a \in Range(order) |-> IF a = assetId THEN 1 ELSE 0]

handleLayerFadeTo(c, assetId) ==
  /\ c \in connections
  /\ LET k == wsdata[c].campaignId
     IN IF ~Truthy(k) THEN notInCampaign(c, "layer-fade-to", assetId)
        ELSE IF k \notin DOMAIN rooms THEN returnSilently(c, "layer-fade-to", assetId)
        ELSE LET room == heap[rooms[k]]
                 room1 == [room EXCEPT !.playback =
                             ("layerVolumes" :> fadeToLayer(room.playlistOrder, assetId)) @@ @]
             IN IF room.playback.playlistId \notin LayeredPlaylists
                   \/ ~Includes(room.playlistOrder, assetId)
                THEN returnSilently(c, "layer-fade-to", assetId)
                ELSE applyToRoom(c, Op("layer-fade-to", c, assetId), room1,
                                 <<QueueUpdatedMsg(room1.playback)>>)

\* ------------------------------------------------- client: reconnection
MAX_RECONNECT_ATTEMPTS == 10
BASE_RECONNECT_DELAY == 1000
MAX_RECONNECT_DELAY == 30000

ConnectionLost == "Connection lost. Please refresh the page."
ConnectionError == "WebSocket connection error"

Min(a, b) == IF a < b THEN a ELSE b

\* Variant of reconnectDelay: the delay is not capped.
reconnectDelayUncapped(n) == BASE_RECONNECT_DELAY * 2^n

\* Math.min(BASE_RECONNECT_DELAY * Math.pow(2, reconnectAttempts), 30000)
reconnectDelay(n) == Min(BASE_RECONNECT_DELAY * 2^n, MAX_RECONNECT_DELAY)

\* scheduleReconnect(); an overwritten timer handle leaves its timer pending.
scheduleReconnect ==
  IF reconnectAttempts >= MAX_RECONNECT_ATTEMPTS
  THEN /\ error' = ConnectionLost
       /\ reconnecting' = FALSE
       /\ UNCHANGED <<reconnectAttempts, reconnectTimeout, orphanTimers>>
  ELSE /\ reconnecting' = TRUE
       /\ reconnectTimeout' = <<reconnectDelay(reconnectAttempts)>>
       /\ reconnectAttempts' = reconnectAttempts + 1
       /\ orphanTimers' = IF reconnectTimeout # <<>> THEN orphanTimers + 1 ELSE orphanTimers
       /\ UNCHANGED error

\* doConnect(): returns when ws is an open socket, else creates a socket
\* and stores it in ws.
doConnect ==
  IF ws # NULL /\ sockets[ws] = "open"
  THEN UNCHANGED <<ws, sockets>>
  ELSE \E s \in SocketIds :
         /\ sockets[s] = "none"
         /\ sockets' = [sockets EXCEPT ![s] = "connecting"]
         /\ ws' = s

\* The sockets that are alive and the timers that are pending.
Alive ==
  Cardinality({s \in SocketIds : sockets[s] # "none"}) + orphanTimers
    + (IF reconnectTimeout # <<>> THEN 1 ELSE 0)

\* connect(), called while fewer than MaxSockets sockets and timers are alive
connect ==
  /\ Alive < MaxSockets
  /\ ws = NULL
  /\ doConnect
  /\ out' = <<>>
  /\ UNCHANGED <<serverVars, pageVars, connected, reconnecting, error, reconnectAttempts,
                 reconnectTimeout, orphanTimers, shouldReconnect, identityVars>>

\* disconnect(): clearTimeout reaches only the timer in reconnectTimeout.
disconnect ==
  /\ shouldReconnect' = FALSE
  /\ lastIdentity' = NULL
  /\ lastCampaignId' = NULL
  /\ reconnectAttempts' = 0
  /\ reconnectTimeout' = <<>>
  /\ reconnecting' = FALSE
  /\ IF ws # NULL
     THEN /\ sockets' = [sockets EXCEPT ![ws] = "closing"]
          /\ ws' = NULL
     ELSE UNCHANGED <<ws, sockets>>
  /\ out' = <<>>
  /\ UNCHANGED <<serverVars, pageVars, connected, error, orphanTimers, identified,
                 pendingIdentify>>

\* The callback of the timer held in reconnectTimeout.
reconnectTimerFires ==
  /\ reconnectTimeout # <<>>
  /\ reconnectTimeout' = <<>>
  /\ doConnect
  /\ out' = <<>>
  /\ UNCHANGED <<serverVars, pageVars, connected, reconnecting, error, reconnectAttempts,
                 orphanTimers, shouldReconnect, identityVars>>

\* The callback of a timer whose handle was overwritten: it nulls
\* reconnectTimeout, whose own timer stays pending without a handle.
orphanTimerFires ==
  /\ orphanTimers > 0
  /\ reconnectTimeout' = <<>>
  /\ orphanTimers' = IF reconnectTimeout # <<>> THEN orphanTimers ELSE orphanTimers - 1
  /\ doConnect
  /\ out' = <<>>
  /\ UNCHANGED <<serverVars, pageVars, connected, reconnecting, error, reconnectAttempts,
                 shouldReconnect, identityVars>>

\* send(message) with the sockets in readyState socks: through ws.value, and
\* only when that socket is open.
clientSend(socks, msgs) ==
  IF ws # NULL /\ socks[ws] = "open"
  THEN [i \in 1..Len(msgs) |-> [socket |-> ws, msg |-> msgs[i]]]
  ELSE <<>>

IdentifyMsg(user) == [type |-> "identify", user |-> user]

JoinCampaignMsg(campaignId) == [type |-> "join-campaign", campaignId |-> campaignId]

\* The messages socket.onopen sends: identify and, inside the same branch,
\* join-campaign when an identity is known, else the pending identify.
resends(identity, pendingId, campaignId) ==
  IF identity # NULL
  THEN <<IdentifyMsg(identity)>>
         \o (IF campaignId # NULL THEN <<JoinCampaignMsg(campaignId)>> ELSE <<>>)
  ELSE IF pendingId # NULL THEN <<IdentifyMsg(pendingId)>>
  ELSE <<>>

\* socket.onopen
onopen(s) ==
  /\ sockets[s] = "connecting"
  /\ sockets' = [sockets EXCEPT ![s] = "open"]
  /\ connected' = TRUE
  /\ reconnecting' = FALSE
  /\ reconnectAttempts' = 0
  /\ error' = NULL
  /\ shouldReconnect' = TRUE
  /\ out' = clientSend(sockets', resends(lastIdentity, pendingIdentify, lastCampaignId))
  /\ identified' = IF lastIdentity # NULL \/ pendingIdentify # NULL THEN TRUE ELSE identified
  /\ lastIdentity' = IF lastIdentity = NULL THEN pendingIdentify ELSE lastIdentity
  /\ pendingIdentify' = IF lastIdentity = NULL THEN NULL ELSE pendingIdentify
  /\ UNCHANGED <<serverVars, pageVars, ws, reconnectTimeout, orphanTimers, lastCampaignId>>

\* identify(user)
identify(user) ==
  /\ lastIdentity' = user
  /\ IF ws # NULL /\ sockets[ws] = "open"
     THEN /\ out' = clientSend(sockets, <<IdentifyMsg(user)>>)
          /\ identified' = TRUE
          /\ UNCHANGED pendingIdentify
     ELSE /\ pendingIdentify' = user
          /\ out' = <<>>
          /\ UNCHANGED identified
  /\ UNCHANGED <<serverVars, pageVars, ws, sockets, connected, reconnecting, error,
                 reconnectAttempts, reconnectTimeout, orphanTimers, shouldReconnect,
                 lastCampaignId>>

\* joinCampaign(campaignId)
joinCampaign(campaignId) ==
  /\ lastCampaignId' = campaignId
  /\ out' = clientSend(sockets, <<JoinCampaignMsg(campaignId)>>)
  /\ UNCHANGED <<serverVars, pageVars, ws, sockets, connected, reconnecting, error,
                 reconnectAttempts, reconnectTimeout, orphanTimers, shouldReconnect,
                 identified, lastIdentity, pendingIdentify>>

\* leaveCampaign()
leaveCampaign ==
  /\ lastCampaignId' = NULL
  /\ out' = clientSend(sockets, <<[type |-> "leave-campaign"]>>)
  /\ UNCHANGED <<serverVars, pageVars, ws, sockets, connected, reconnecting, error,
                 reconnectAttempts, reconnectTimeout, orphanTimers, shouldReconnect,
                 identified, lastIdentity, pendingIdentify>>

\* socket.onerror: the connection has failed and the socket goes on to close.
onerror(s) ==
  /\ sockets[s] \in {"connecting", "open"}
  /\ sockets' = [sockets EXCEPT ![s] = "closing"]
  /\ error' = ConnectionError
  /\ out' = <<>>
  /\ UNCHANGED <<serverVars, pageVars, ws, connected, reconnecting, reconnectAttempts,
                 reconnectTimeout, orphanTimers, shouldReconnect, identityVars>>

\* socket.onclose
onclose(s) ==
  /\ sockets[s] # "none"
  /\ sockets' = [sockets EXCEPT ![s] = "none"]
  /\ connected' = FALSE
  /\ identified' = FALSE
  /\ ws' = NULL
  /\ IF shouldReconnect THEN scheduleReconnect
     ELSE UNCHANGED <<reconnecting, error, reconnectAttempts, reconnectTimeout, orphanTimers>>
  /\ out' = <<>>
  /\ UNCHANGED <<serverVars, pageVars, shouldReconnect, lastIdentity, pendingIdentify,
                 lastCampaignId>>

\* --------------------------------------------- page: transport reconciliation
Abs(x) == IF x < 0 THEN -x ELSE x

\* Variant of targetTime: the time since the snapshot is left out.
targetTimeWithoutElapsed(state, t) == state.currentTime * MsPerSecond

\* targetTime of syncPlayback in ms: currentTime is in seconds and
\* elapsed = (Date.now() - state.timestamp) / 1000.
targetTime(state, t) ==
  IF state.playing THEN state.currentTime * MsPerSecond + (t - state.timestamp)
  ELSE state.currentTime * MsPerSecond

\* syncPlayback(state) on element e at Date.now() = t; el.play() either
\* starts the element or is rejected, and the rejection is caught and dropped.
syncPlayback(state, e, t, playResolves) ==
  IF e.kind \in {"none", "image"} THEN e
  ELSE LET target == targetTime(state, t)
           e1 == IF Abs(e.currentTime - target) > 500
                 THEN [e EXCEPT !.currentTime = target] ELSE e
       IN IF state.playing /\ e1.paused THEN [e1 EXCEPT !.paused = ~playResolves]
          ELSE IF ~state.playing /\ ~e1.paused THEN [e1 EXCEPT !.paused = TRUE]
          ELSE e1

\* The snapshots a playback-state or queue-updated message may carry.
Snapshots ==
  {[ClientDefaultPlaybackState EXCEPT !.assetId = "a1", !.playing = pl,
                                      !.currentTime = ct, !.timestamp = ts, !.loop = lp] :
     pl \in BOOLEAN, ct \in {0, 1}, ts \in {0, 300}, lp \in BOOLEAN}

\* hasChanged(newValue, oldValue) of the watcher on
\* () => ({playing, currentTime, timestamp}): the getter builds a new object
\* on every run, and Object.is of two distinct objects is false whatever
\* their fields hold.
sourceChanged(old, new) == TRUE

\* The passes one message causes: the onMessage handler syncs on
\* playback-state, then the watcher runs when its source has changed.
passesOf(type, old, new) ==
  (IF type = "playback-state" THEN 1 ELSE 0) + (IF sourceChanged(old, new) THEN 1 ELSE 0)

\* handleMessage for playback-state and queue-updated, the onMessage handler
\* of usePlayback and the flush of its watcher.
receive(type, pb) ==
  /\ playbackState' = pb
  /\ syncs' = passesOf(type, playbackState, pb)
  /\ \E ok1 \in BOOLEAN, ok2 \in BOOLEAN :
       LET e1 == IF type = "playback-state" THEN syncPlayback(pb, el, clientNow, ok1) ELSE el
       IN el' = IF sourceChanged(playbackState, pb)
                THEN syncPlayback(pb, e1, clientNow, ok2) ELSE e1
  /\ UNCHANGED <<serverVars, socketVars, fadeVars, clientNow>>

\* setMediaElement(el) once the asset of the given type is loaded.
setMediaElement(kind) ==
  /\ el.kind = "none"
  /\ syncs' = 1
  /\ \E ok \in BOOLEAN :
       el' = syncPlayback(playbackState, [kind |-> kind, currentTime |-> 0, paused |-> TRUE],
                          clientNow, ok)
  /\ UNCHANGED <<serverVars, socketVars, fadeVars, clientNow, playbackState>>

\* The browser clock advances.
clockAdvances ==
  /\ clientNow < 300 * MaxClock
  /\ clientNow' = clientNow + 300
  /\ syncs' = 0
  /\ UNCHANGED <<serverVars, socketVars, fadeVars, playbackState, el>>

\* The element plays on by itself.
elementPlays ==
  /\ el.kind = "audio"
  /\ ~el.paused
  /\ el.currentTime < 300 * MaxClock
  /\ el' = [el EXCEPT !.currentTime = @ + 300]
  /\ syncs' = 0
  /\ UNCHANGED <<serverVars, socketVars, fadeVars, playbackState, clientNow>>

\* ------------------------------------------------- page: layered-mix fade
\* Volumes are in thousandths and times in ms, so that FADE_SPEED units per
\* second is FADE_SPEED thousandths per ms.
FADE_SPEED == 1
FirstFrameDelta == 16     \* deltaTime of the first frame, 0.016 s
FadeEpsilon == 1          \* 0.001

Layers == {"a1", "a2"}
LayerVolumes == [Layers -> {0, 1000}]
FrameGaps == {300, 400}   \* ms between two animation frames

isLayeredPlaylist(pb) == pb.playlistType = "layered" /\ pb.playlistId # NULL

\* animatedLayerVolumes.value[assetId] ?? 0
animatedVolume(animated, assetId) ==
  IF assetId \in DOMAIN animated THEN animated[assetId] ELSE 0

\* Variant of fadeToward: the new value is not clamped to the target.
fadeTowardUnclamped(current, target, step) ==
  IF Abs(target - current) > FadeEpsilon
  THEN IF target > current THEN current + step ELSE current - step
  ELSE current

\* The new animated volume of one layer in a frame.
fadeToward(current, target, step) ==
  IF Abs(target - current) > FadeEpsilon
  THEN IF target > current THEN Min(current + step, target)
       ELSE (IF current - step > target THEN current - step ELSE target)
  ELSE current

\* animateFade(timestamp), the frame callback, gap ms after the last frame.
animateFade(gap) ==
  /\ fadeAnimationFrame
  /\ frameTime' = frameTime + gap
  /\ IF ~isLayeredPlaylist(playbackState)
     THEN /\ fadeAnimationFrame' = FALSE
          /\ UNCHANGED <<lastFadeTime, animatedLayerVolumes>>
     ELSE LET deltaTime == IF lastFadeTime # 0 THEN frameTime' - lastFadeTime
                           ELSE FirstFrameDelta
              targetVolumes == playbackState.layerVolumes
              moved == [a \in DOMAIN targetVolumes |->
                          fadeToward(animatedVolume(animatedLayerVolumes, a),
                                     targetVolumes[a], FADE_SPEED * deltaTime)]
              written == {a \in DOMAIN targetVolumes :
                            Abs(targetVolumes[a] - animatedVolume(animatedLayerVolumes, a))
                              > FadeEpsilon}
              needsMoreAnimation ==
                \E a \in written : Abs(moved[a] - targetVolumes[a]) > FadeEpsilon
          IN /\ animatedLayerVolumes' =
                  [a \in DOMAIN animatedLayerVolumes \cup written |->
                     IF a \in written THEN moved[a] ELSE animatedLayerVolumes[a]]
             /\ fadeAnimationFrame' = needsMoreAnimation
             /\ lastFadeTime' = IF needsMoreAnimation THEN frameTime' ELSE 0
  /\ UNCHANGED <<serverVars, socketVars, syncVars, playbackState>>

\* A message brings the layer volumes lv of a layered playlist: the watcher
\* of layeredAssetIds takes the volumes over when the layers are new, then
\* the deep watcher of layerVolumes runs startFadeAnimation.
layersArrive(lv) ==
  /\ frameTime < 300 * MaxFrames
  /\ playbackState' = [playbackState EXCEPT !.playlistType = "layered", !.playlistId = "p1",
                                            !.layerVolumes = lv]
  /\ LET oldIds == IF isLayeredPlaylist(playbackState)
                   THEN DOMAIN playbackState.layerVolumes ELSE {}
         taken == IF DOMAIN lv # {} /\ DOMAIN lv # oldIds THEN lv ELSE animatedLayerVolumes
     IN animatedLayerVolumes' =
          [a \in DOMAIN taken \cup DOMAIN lv |-> IF a \in DOMAIN taken THEN taken[a] ELSE lv[a]]
  /\ fadeAnimationFrame' = TRUE
  /\ lastFadeTime' = IF fadeAnimationFrame THEN lastFadeTime ELSE 0
  /\ UNCHANGED <<serverVars, socketVars, syncVars, frameTime>>

\* A message ends the layered playlist: the watcher of layeredAssetIds
\* clears the animated volumes and cancels the frame.
layersEnd ==
  /\ isLayeredPlaylist(playbackState)
  /\ playbackState' = [playbackState EXCEPT !.playlistType = "sequential", !.playlistId = NULL,
                                            !.layerVolumes = <<>>]
  /\ animatedLayerVolumes' = <<>>
  /\ fadeAnimationFrame' = FALSE
  /\ UNCHANGED <<serverVars, socketVars, syncVars, frameTime, lastFadeTime>>

\* ------------------------------------------- client: delivery of messages
\* case 'asset-selected' of handleMessage at Date.now() = t.
assetSelected(pb, assetId, t) ==
  [pb EXCEPT !.assetId = assetId, !.playing = FALSE, !.currentTime = 0, !.timestamp = t,
             !.playlistId = NULL, !.playlistIndex = -1, !.playlistLength = 0,
             !.nextAssetId = NULL]

\* handleMessage of useWebSocket.ts on the state v of one page.
clientHandleMessage(v, msg, t) ==
  CASE msg.type = "campaign-joined" ->
         [v EXCEPT !.playbackState = msg.playback, !.miniAppState = msg.miniApps]
    [] msg.type \in {"playback-state", "queue-updated"} ->
         [v EXCEPT !.playbackState = msg.playback]
    [] msg.type = "asset-selected" ->
         [v EXCEPT !.playbackState = assetSelected(@, msg.assetId, t)]
    [] msg.type = "miniapp-state" ->
         [v EXCEPT !.miniAppState = msg.miniApps]
    [] msg.type = "miniapp-updated" ->
         [v EXCEPT !.miniAppState.appStates = (msg.appId :> msg.state) @@ @]
    [] OTHER -> v

\* The state of the page of connection c once it has handled, in the order
\* they were sent, the events of evs from the i-th on that went to c.
RECURSIVE handleAll(_, _, _, _, _)
handleAll(v, c, evs, i, t) ==
  IF i > Len(evs) THEN v
  ELSE handleAll(IF c \in evs[i].to THEN clientHandleMessage(v, evs[i].msg, t) ELSE v,
                 c, evs, i + 1, t)

\* Every message of the last handler step has been handled by its receivers
\* (the messages are snapshots: handling them again changes nothing).
Delivered == \A c \in Conns : handleAll(clients[c], c, sent, 1, now) = clients[c]

\* The transport delivers the messages of the last handler step, in order.
Deliver ==
  /\ ~Delivered
  /\ clients' = [c \in Conns |-> handleAll(clients[c], c, sent, 1, now)]
  /\ UNCHANGED <<now, connections, wsdata, rooms, heap, pending, storage, sent, last,
                 socketVars, pageVars>>

\* --------------------------------------------------------- specifications
\* Spec: the playlist state machine of campaign c1 driven by the game
\* master, who joins once, with the playlist lookups in flight.
Next ==
  \/ handleOpen(GM)
  \/ wsdata[GM].campaignId = NULL /\ handleJoinCampaign(GM, "c1")
  \/ \E cmd \in {"pause", "next"} : handlePlaybackCommand(GM, cmd, FALSE, 0)
  \/ \E p \in {"p1", "p3"} : handlePlaylistPlay(GM, p)
  \/ \E i \in 1..MaxPending : playlistPlayResume(i)
  \/ \E b \in {"true", "false"} : handlePlaylistSettings(GM, b, "absent")
  \/ \E b \in {"true", "false"} : handlePlaylistSettings(GM, "absent", b)
  \/ \E i \in 1..MaxPending : playlistSettingsResume(i)
  \/ \E a \in {AssetNames[MaxTracks], External} : handleQueueAsset(GM, a)

Spec == Init /\ [][Next]_vars

\* SpecTiming: play, pause and seek against the clock.
NextTiming ==
  \/ Tick
  \/ \E c \in Conns : handleOpen(c)
  \/ \E c \in Conns : wsdata[c].campaignId = NULL /\ handleJoinCampaign(c, "c1")
  \/ \E c \in Conns, cmd \in {"play", "pause"} : handlePlaybackCommand(c, cmd, FALSE, 0)
  \/ \E c \in Conns, t \in 0..MaxSeek : handlePlaybackCommand(c, "seek", TRUE, t)
  \/ \E c \in Conns : handlePlaybackCommand(c, "seek", FALSE, 0)

SpecTiming == Init /\ [][NextTiming]_vars

\* SpecCommands: every command handler, issued by joined and by unjoined
\* connections, in campaign c2, which has no playable playlist; a connection
\* joins once.
NextCommands ==
  \/ \E c \in Conns : handleOpen(c)
  \/ \E c \in Conns : wsdata[c].campaignId = NULL /\ handleJoinCampaign(c, "c2")
  \/ \E c \in Conns : handlePlaybackCommand(c, "play", FALSE, 0)
  \/ \E c \in Conns : handleAssetSelect(c, "a1")
  \/ \E c \in Conns, p \in {"p2", "p3"} : handlePlaylistPlay(c, p)
  \/ \E i \in 1..MaxPending : playlistPlayResume(i)
  \/ \E c \in Conns : handlePlaylistStop(c)
  \/ \E c \in Conns : handlePlaylistSettings(c, "true", "true")
  \/ \E c \in Conns : handleQueueAsset(c, "a1")
  \/ \E c \in Conns : handleQueueJump(c, "a1")
  \/ \E c \in Conns : handleMiniAppEnable(c, "media-display")
  \/ \E c \in Conns : handleMiniAppDisable(c, "media-display")
  \/ \E c \in Conns : handleMiniAppAction(c, "media-display", "set-asset", "a1")
  \/ \E c \in Conns : handleReloadPlayers(c)

SpecCommands == Init /\ [][NextCommands]_vars

\* SpecDispatch: the game master's commands in campaign c1 with both
\* connections in the room: playback, the one-track playlist p3, and the
\* mini-apps.
NextDispatch ==
  \/ \E c \in Conns : handleOpen(c)
  \/ \E c \in Conns : wsdata[c].campaignId = NULL /\ handleJoinCampaign(c, "c1")
  \/ handlePlaybackCommand(GM, "play", FALSE, 0)
  \/ handleAssetSelect(GM, External)
  \/ handlePlaylistPlay(GM, "p3")
  \/ \E i \in 1..MaxPending : playlistPlayResume(i)
  \/ handlePlaylistStop(GM)
  \/ handlePlaylistSettings(GM, "true", "true")
  \/ \E i \in 1..MaxPending : playlistSettingsResume(i)
  \/ handleQueueAsset(GM, External)
  \/ handleQueueJump(GM, External)
  \/ \E appId \in AppIds : handleMiniAppEnable(GM, appId)
  \/ \E appId \in AppIds : handleMiniAppDisable(GM, appId)
  \/ \E appId \in AppIds : handleMiniAppAction(GM, appId, "set-asset", External)
  \/ \E appId \in AppIds : handleMiniAppAction(GM, appId, "clear", NULL)

SpecDispatch == Init /\ [][NextDispatch]_vars

\* SpecClient: the client's connection and its reconnection timers; the
\* network opens or fails every socket that is connecting, closes every
\* socket that is closing, and every timer fires.
NextClient ==
  \/ connect
  \/ disconnect
  \/ reconnectTimerFires
  \/ orphanTimerFires
  \/ \E s \in SocketIds : onopen(s)
  \/ \E s \in SocketIds : onerror(s)
  \/ \E s \in SocketIds : onclose(s)

SpecClient ==
  /\ Init
  /\ [][NextClient]_vars
  /\ WF_vars(reconnectTimerFires)
  /\ WF_vars(orphanTimerFires)
  /\ \A s \in SocketIds :
       WF_vars(sockets[s] \in {"connecting", "closing"} /\ (onopen(s) \/ onclose(s)))

\* SpecRejoin: a page of the player app (identify, then join once connected
\* and identified) or of the GM app (join once connected) whose socket is
\* lost and reopened by the reconnect timer.
NextRejoin ==
  \/ connect
  \/ identify("u1")
  \/ connected /\ joinCampaign("c1")
  \/ leaveCampaign
  \/ reconnectTimerFires
  \/ \E s \in SocketIds : onopen(s)
  \/ \E s \in SocketIds : onerror(s)
  \/ \E s \in SocketIds : onclose(s)

SpecRejoin == Init /\ [][NextRejoin]_vars

\* SpecPage: the transport reconciliation of one page: messages arrive, the
\* clock and the element run on.
NextPage ==
  \/ \E type \in {"playback-state", "queue-updated"}, pb \in Snapshots : receive(type, pb)
  \/ \E kind \in {"audio", "image"} : setMediaElement(kind)
  \/ clockAdvances
  \/ elementPlays

SpecPage == Init /\ [][NextPage]_vars

\* SpecLayers: a layered playlist plays in a room and the game master fades
\* between its layers.
NextLayers ==
  \/ \E c \in Conns : handleOpen(c)
  \/ \E c \in Conns : wsdata[c].campaignId = NULL /\ handleJoinCampaign(c, "c1")
  \/ handlePlaylistPlay(GM, "p1")
  \/ \E i \in 1..MaxPending : playlistPlayResume(i)
  \/ \E cmd \in {"play", "pause"} : handlePlaybackCommand(GM, cmd, FALSE, 0)
  \/ \E a \in Assets : handleLayerFadeTo(GM, a)
  \/ Tick

SpecLayers == Init /\ [][NextLayers]_vars

\* SpecQuiz: a quiz runs in one room; either connection may be identified.
Questions ==
  {[question |-> q, options |-> <<"x", "y">>, correctIndex |-> 0, timeLimit |-> 15] :
     q \in {"q1", "q2"}}

AnswerPayloads == {[answerIndex |-> i] : i \in {0, 1}}

NextQuiz ==
  \/ \E c \in Conns : handleOpen(c)
  \/ \E c \in Conns : wsdata[c].user = NULL /\ handleIdentify(c, Identity(c))
  \/ \E c \in Conns : wsdata[c].campaignId = NULL /\ handleJoinCampaign(c, "c1")
  \/ handleMiniAppEnable(GM, "quiz")
  \/ \E p \in Questions : handleMiniAppAction(GM, "quiz", "start-question", p)
  \/ \E c \in Conns, p \in AnswerPayloads \cup {NoPayload} :
       handleMiniAppAction(c, "quiz", "submit-answer", p)
  \/ handleMiniAppAction(GM, "quiz", "reveal-results", NULL)
  \/ handleMiniAppAction(GM, "quiz", "reset", NULL)
  \/ Tick

SpecQuiz == Init /\ [][NextQuiz]_vars

\* SpecCards: rounds of the card game in room c1. The game master
\* identifies first, a connection identifies before it joins the room, a
\* round is started from phase idle once both connections are in the room,
\* and players join during phase joining.
cardGame ==
  IF "c1" \in DOMAIN rooms /\ "blackjack" \in DOMAIN heap[rooms["c1"]].miniApps.appStates
  THEN heap[rooms["c1"]].miniApps.appStates["blackjack"]
  ELSE defaultAppStates("blackjack")

NextCards ==
  \/ \E c \in Conns : handleOpen(c)
  \/ \E c \in Conns : wsdata[c].user = NULL /\ wsdata[c].campaignId = NULL
       /\ wsdata[GM].user = (IF c = GM THEN NULL ELSE Identity(GM))
       /\ handleIdentify(c, Identity(c))
  \/ \E c \in Conns : wsdata[c].campaignId = NULL /\ handleJoinCampaign(c, "c1")
  \/ handleMiniAppEnable(GM, "blackjack")
  \/ cardGame.phase = "idle" /\ (\A c \in Conns : wsdata[c].campaignId = "c1")
       /\ handleMiniAppAction(GM, "blackjack", "start-round", NoPayload)
  \/ \E c \in Conns : cardGame.phase = "joining"
       /\ handleMiniAppAction(c, "blackjack", "join", NoPayload)
  \/ handleMiniAppAction(GM, "blackjack", "deal", NoPayload)
  \/ \E c \in Conns : handleMiniAppAction(c, "blackjack", "hit", NoPayload)
  \/ \E c \in Conns : handleMiniAppAction(c, "blackjack", "stand", NoPayload)
  \/ handleMiniAppAction(GM, "blackjack", "reset", NoPayload)

SpecCards == Init /\ [][NextCards]_vars

\* SpecFade: the fade of the layer volumes of one page; a requested frame
\* is run by the browser.
NextFade ==
  \/ \E lv \in LayerVolumes : layersArrive(lv)
  \/ layersEnd
  \/ \E gap \in FrameGaps : animateFade(gap)

SpecFade == Init /\ [][NextFade]_vars /\ WF_vars(\E gap \in FrameGaps : animateFade(gap))

\* SpecRooms: the room and connection registries over the campaigns "" and
\* c2, with commands that move a room away from its default state.
NextRooms ==
  \/ \E c \in Conns : handleOpen(c)
  \/ \E c \in Conns : handleClose(c)
  \/ \E c \in Conns : handleIdentify(c, Identity(c))
  \/ \E c \in Conns : handleLeaveCampaign(c)
  \/ \E c \in Conns, k \in {"", "c2"} : handleJoinCampaign(c, k)
  \/ \E c \in Conns : handlePlaybackCommand(c, "play", FALSE, 0)
  \/ \E c \in Conns : handleMiniAppEnable(c, "media-display")

SpecRooms == Init /\ [][NextRooms]_vars

\* SpecStore: shuffle toggles of a running playlist while the stored playlist
\* is edited (emptied, or replaced by its last and first track) or deleted
\* through the HTTP routes.
StoredLists == {<<>>, <<AssetNames[MaxTracks], AssetNames[1]>>}

NextStore ==
  \/ Tick
  \/ \E list \in StoredLists : UpdatePlaylist("c1", "p1", list)
  \/ DeletePlaylist("c1", "p1")
  \/ handleOpen(GM)
  \/ wsdata[GM].campaignId = NULL /\ handleJoinCampaign(GM, "c1")
  \/ handlePlaylistPlay(GM, "p1")
  \/ \E i \in 1..MaxPending : playlistPlayResume(i)
  \/ \E b \in {"true", "false"} : handlePlaylistSettings(GM, "absent", b)
  \/ \E i \in 1..MaxPending : playlistSettingsResume(i)
  \/ handlePlaybackCommand(GM, "next", FALSE, 0)

SpecStore == Init /\ [][NextStore]_vars

\* SpecBroadcast: the commands that change the timing-relevant fields of
\* the playback, sent by the game master while a second connection may
\* listen in the room.
NextBroadcast ==
  \/ \E c \in Conns : handleOpen(c)
  \/ \E c \in Conns : wsdata[c].campaignId = NULL /\ handleJoinCampaign(c, "c1")
  \/ \E cmd \in {"play", "pause", "next", "prev"} : handlePlaybackCommand(GM, cmd, FALSE, 0)
  \/ handlePlaybackCommand(GM, "seek", TRUE, 1)
  \/ handleAssetSelect(GM, External)
  \/ handlePlaylistPlay(GM, "p1")
  \/ \E i \in 1..MaxPending : playlistPlayResume(i)
  \/ handlePlaylistStop(GM)
  \/ \E b \in {"true", "false"} : handlePlaylistSettings(GM, "absent", b)
  \/ \E i \in 1..MaxPending : playlistSettingsResume(i)
  \/ handleQueueJump(GM, AssetNames[MaxTracks])

SpecBroadcast == Init /\ [][NextBroadcast]_vars

\* SpecConverge: the game master's commands in room c1, which the game
\* master may leave and join again; every handler step is followed by the
\* delivery of its messages before the next message is handled.
NextConverge ==
  \/ Deliver
  \/ \E c \in Conns : Delivered /\ handleOpen(c)
  \/ \E c \in Conns : Delivered /\ wsdata[c].campaignId = NULL /\ handleJoinCampaign(c, "c1")
  \/ Delivered /\ handleLeaveCampaign(GM)
  \/ Delivered /\ handlePlaylistPlay(GM, "p3")
  \/ \E i \in 1..MaxPending : Delivered /\ playlistPlayResume(i)
  \/ Delivered /\ handlePlaybackCommand(GM, "pause", FALSE, 0)
  \/ Delivered /\ handleAssetSelect(GM, External)
  \/ Delivered /\ handleMiniAppEnable(GM, "media-display")
  \/ Delivered /\ handleMiniAppAction(GM, "media-display", "set-asset", External)

SpecConverge == Init /\ [][NextConverge]_vars

\* ------------------------------------------------------------ properties
\* The room a connection is joined to (the room its commands act on).
Joined(c) == c \in connections /\ Truthy(wsdata[c].campaignId) /\ wsdata[c].campaignId \in DOMAIN rooms
RoomOf(c) == heap[rooms[wsdata[c].campaignId]]

\* C1: after a playlist-play that found a stored playlist of K >= 1 tracks,
\* the room has playlistIndex = 0, playlistLength = K, playing = true,
\* currentTime = 0, nextAssetId = null and assetId = order[0], and the
\* realized order is the stored list when shuffle is off and an arrangement
\* of it when shuffle is on.
C1_PlaylistPlayStarts ==
  (last.op = "playlist-play-resume" /\ last.obj \in DOMAIN heap) =>
    LET room == heap[last.obj]
        pb == room.playback
        file == storage[room.campaignId][last.arg]
        K == Len(file.assetIds)
    IN (file.found /\ K >= 1) =>
         /\ pb.playlistIndex = 0
         /\ pb.playlistLength = K
         /\ pb.playing
         /\ pb.currentTime = 0
         /\ pb.nextAssetId = NULL
         /\ pb.assetId = room.playlistOrder[1]
         /\ pb.playlistId = last.arg
         /\ IF pb.shuffle
            THEN room.playlistOrder \in Perms(file.assetIds)
            ELSE room.playlistOrder = file.assetIds

\* A shuffled start of the longest playlist, in an order other than the
\* stored one.
C1_Witness ==
  /\ last.op = "playlist-play-resume"
  /\ last.obj \in DOMAIN heap
  /\ LET room == heap[last.obj]
     IN /\ room.playback.shuffle
        /\ room.playback.playing
        /\ Len(room.playlistOrder) = MaxTracks
        /\ room.playlistOrder # storage[room.campaignId][last.arg].assetIds

\* C2: K consecutive next commands from index 0 of a K-track playlist with
\* loop off and nothing queued walk the order track by track and end with
\* playing = false on the last track; the index never wraps to 0.
C2_NextStopsAtEnd ==
  \A c \in Conns :
    (last.op = "playback-command" /\ last.conn = c /\ last.run >= 1 /\ Joined(c)) =>
      LET room == RoomOf(c)
          pb == room.playback
          K == Len(room.playlistOrder)
      IN IF last.run = K
         THEN /\ ~pb.playing
              /\ pb.playlistIndex = K - 1
              /\ pb.assetId = room.playlistOrder[K]
         ELSE /\ pb.playlistIndex = last.run
              /\ pb.assetId = room.playlistOrder[last.run + 1]

\* The K-th next of a run over the longest playlist, which was playing when
\* the run began.
C2_Witness ==
  /\ last.op = "playback-command"
  /\ last.run = MaxTracks
  /\ Joined(last.conn)
  /\ Len(RoomOf(last.conn).playlistOrder) = MaxTracks
  /\ ~RoomOf(last.conn).playback.playing
  /\ RoomOf(last.conn).playback.assetId = RoomOf(last.conn).playlistOrder[MaxTracks]

\* C3: with loop on and nothing queued, a next command at the last index of
\* the realized order moves to index 0 and to order[0], resets currentTime
\* to 0 and leaves playing as it was (a playing room keeps playing).
C3_NextWrapsWhenLooping ==
  [][\A c \in Conns :
       (/\ handlePlaybackCommand(c, "next", FALSE, 0)
        /\ Joined(c)
        /\ RoomOf(c).playback.loop
        /\ ~Truthy(RoomOf(c).playback.nextAssetId)
        /\ Len(RoomOf(c).playlistOrder) >= 1
        /\ RoomOf(c).playback.playlistIndex = Len(RoomOf(c).playlistOrder) - 1)
       => LET pb == RoomOf(c).playback
              room1 == heap'[rooms[wsdata[c].campaignId]]
          IN /\ room1.playback.playlistIndex = 0
             /\ room1.playback.assetId = room1.playlistOrder[1]
             /\ room1.playback.currentTime = 0
             /\ room1.playback.playing = pb.playing
             /\ room1.playlistOrder = RoomOf(c).playlistOrder]_vars

\* A playing room that a next command has just wrapped from the last track
\* of a playlist of two or more tracks to the first.
C3_Witness ==
  /\ last.op = "playback-command"
  /\ last.arg = "next"
  /\ last.took = NULL
  /\ Joined(last.conn)
  /\ LET room == RoomOf(last.conn)
     IN /\ Len(room.playlistOrder) >= 2
        /\ room.playback.loop
        /\ room.playback.playing
        /\ room.playback.playlistIndex = 0
        /\ room.playback.assetId = room.playlistOrder[1]
        /\ room.playback.timestamp = now

\* The playback fields a playlist-settings command leaves alone.
SamePlayback(pb, pb1) ==
  /\ pb1.assetId = pb.assetId
  /\ pb1.currentTime = pb.currentTime
  /\ pb1.timestamp = pb.timestamp
  /\ pb1.playing = pb.playing
  /\ pb1.playlistId = pb.playlistId
  /\ pb1.playlistLength = pb.playlistLength
  /\ pb1.nextAssetId = pb.nextAssetId

C5_Original ==
  [][\A c \in Conns :
       (handlePlaybackCommand(c, "next", FALSE, 0) /\ Joined(c))
       => LET room == RoomOf(c)
              pb == room.playback
              pb1 == heap'[rooms[wsdata[c].campaignId]].playback
              K == Len(room.playlistOrder)
              J == JsIndexOf(room.playlistOrder, last.took)
          IN /\ Truthy(pb.nextAssetId)
                => /\ pb1.assetId = pb.nextAssetId
                   /\ pb1.nextAssetId = NULL
                   /\ pb1.currentTime = 0
             /\ (last.op = "playback-command" /\ last.took # NULL)
                => /\ pb.playlistIndex = J
                   /\ IF J + 1 >= K /\ ~pb.loop
                      THEN ~pb1.playing /\ pb1.playlistIndex = J
                      ELSE pb1.playlistIndex = (J + 1) % K]_vars

\* C5, amended: when the room has a realized order, a next command with Y
\* queued sets assetId = Y, clears the queued asset and resets currentTime,
\* whatever the index and the loop flag, and playlistIndex becomes Y's index
\* when Y occurs in the order and stays as it was when it does not; the next
\* command after it continues normal sequencing from that index.  Without a
\* realized order the next command changes nothing and Y stays queued.
C5_QueuedAssetPlaysNext ==
  [][\A c \in Conns :
       (handlePlaybackCommand(c, "next", FALSE, 0) /\ Joined(c))
       => LET room == RoomOf(c)
              pb == room.playback
              room1 == heap'[rooms[wsdata[c].campaignId]]
              pb1 == room1.playback
              order == room.playlistOrder
              K == Len(order)
              Y == pb.nextAssetId
              J == pb.playlistIndex
          IN /\ room1.playlistOrder = order
             /\ (Truthy(Y) /\ K > 0)
                => /\ pb1.assetId = Y
                   /\ pb1.nextAssetId = NULL
                   /\ pb1.currentTime = 0
                   /\ pb1.playing = pb.playing
                   /\ pb1.playlistIndex = IF Includes(order, Y) THEN JsIndexOf(order, Y) ELSE J
             /\ (Truthy(Y) /\ K = 0) => room1 = room
             /\ (last.op = "playback-command" /\ last.took # NULL)
                => /\ pb.nextAssetId = NULL
                   /\ pb.assetId = last.took
                   /\ Includes(order, last.took) => J = JsIndexOf(order, last.took)
                   /\ IF J + 1 >= K /\ ~pb.loop
                      THEN /\ ~pb1.playing
                           /\ pb1.playlistIndex = J
                           /\ pb1.assetId = pb.assetId
                      ELSE /\ pb1.playlistIndex = (J + 1) % K
                           /\ pb1.assetId = order[((J + 1) % K) + 1]
                           /\ pb1.currentTime = 0]_vars

\* A next command that has just played the queued last track of the longest
\* playlist from another index, with loop on.
C5_Witness ==
  /\ last.op = "playback-command"
  /\ last.took = AssetNames[MaxTracks]
  /\ Joined(last.conn)
  /\ LET room == RoomOf(last.conn)
     IN /\ room.playback.assetId = last.took
        /\ room.playback.nextAssetId = NULL
        /\ room.playback.loop
        /\ room.playback.currentTime = 0
        /\ Len(room.playlistOrder) = MaxTracks
        /\ room.playback.playlistIndex = JsIndexOf(room.playlistOrder, last.took)

\* C6: over any sequence of play, pause and seek commands the displayed
\* position never decreases while the room is playing, except at a seek, and
\* does not change while it is paused.
C6_DisplayedPositionMonotonic ==
  [][\A o \in DOMAIN heap \cap DOMAIN heap' :
       ~(\E c \in Conns, t \in 0..MaxSeek : handlePlaybackCommand(c, "seek", TRUE, t))
       => IF heap[o].playback.playing
          THEN displayedPosition(heap'[o].playback, now') >= displayedPosition(heap[o].playback, now)
          ELSE displayedPosition(heap'[o].playback, now') = displayedPosition(heap[o].playback, now)]_vars

\* C7: a playlist-play whose playlist is missing or has no tracks sends one
\* error to the issuing connection and nothing else, and leaves the
\* registry and every registered room (playback, order and all) as it was.
C7_PlaylistPlayFailsLocally ==
  [][\A i \in 1..MaxPending :
       (/\ playlistPlayResume(i)
        /\ LET file == storage[pending[i].campaignId][pending[i].playlistId]
           IN ~file.found \/ Len(file.assetIds) = 0)
       => /\ sent' = <<Event({pending[i].conn}, ErrorMsg("Playlist not found or empty"))>>
          /\ rooms' = rooms
          /\ \A k \in DOMAIN rooms :
               rooms[k] \in DOMAIN heap' /\ heap'[rooms[k]] = heap[rooms[k]]]_vars

\* A failed playlist-play in a room of two connections that has left its
\* default state: the error went to the issuer alone.
C7_Witness ==
  /\ last.op = "playlist-play-resume"
  /\ sent = <<Event({last.conn}, ErrorMsg("Playlist not found or empty"))>>
  /\ Joined(last.conn)
  /\ RoomOf(last.conn).connections = Conns
  /\ RoomOf(last.conn).playback.assetId # NULL
  /\ RoomOf(last.conn).playback.playlistId = NULL

\* Every command a connection can send, over all its arguments.
CommandBy(c) ==
  \/ \E cmd \in {"play", "pause", "next", "prev"} : handlePlaybackCommand(c, cmd, FALSE, 0)
  \/ \E t \in 0..MaxSeek : handlePlaybackCommand(c, "seek", TRUE, t)
  \/ handlePlaybackCommand(c, "seek", FALSE, 0)
  \/ \E a \in Assets \cup {NULL} : handleAssetSelect(c, a)
  \/ \E p \in PlaylistIds : handlePlaylistPlay(c, p)
  \/ handlePlaylistStop(c)
  \/ \E loop \in OptBool, shuffle \in OptBool : handlePlaylistSettings(c, loop, shuffle)
  \/ \E a \in Assets : handleQueueAsset(c, a)
  \/ \E a \in Assets : handleQueueJump(c, a)
  \/ \E app \in AppIds : handleMiniAppEnable(c, app)
  \/ \E app \in AppIds : handleMiniAppDisable(c, app)
  \/ \E app \in AppIds, act \in MiniAppActions, a \in Assets :
       handleMiniAppAction(c, app, act, a)
  \/ handleReloadPlayers(c)

\* C8: a command from a connection that has joined no campaign sends one
\* error to that connection and nothing else; no room, no registry entry
\* and no lookup in flight changes.
C8_UnjoinedCommandFailsLocally ==
  [][\A c \in Conns :
       (/\ c \in connections /\ wsdata[c].campaignId = NULL
        /\ last'.conn = c
        /\ CommandBy(c))
       => /\ sent' = <<Event({c}, ErrorMsg("Not in a campaign"))>>
          /\ rooms' = rooms
          /\ heap' = heap
          /\ pending' = pending
          /\ wsdata' = wsdata]_vars

\* An unjoined connection has just been refused a mini-app action while the
\* other connection sits in a room with that app enabled.
C8_Witness ==
  /\ last.op = "miniapp-action"
  /\ last.conn \in connections
  /\ wsdata[last.conn].campaignId = NULL
  /\ sent = <<Event({last.conn}, ErrorMsg("Not in a campaign"))>>
  /\ \E c \in connections \ {last.conn} :
       /\ Joined(c)
       /\ Includes(RoomOf(c).miniApps.enabledApps, "media-display")

\* C9: a room is registered exactly while some open connection is joined to
\* its campaign, and no registered room has an empty connection set.
C9_RoomRegisteredWhileJoined ==
  /\ \A k \in DOMAIN rooms : \E c \in connections : wsdata[c].campaignId = k
  /\ \A c \in connections :
       wsdata[c].campaignId # NULL => wsdata[c].campaignId \in DOMAIN rooms
  /\ \A k \in DOMAIN rooms : heap[rooms[k]].connections # {}

\* C10: a join-campaign sends the joiner exactly one message, the last of
\* the handler: a campaign-joined carrying the playback state, the roster
\* (with the joiner when identified) and the mini-app state the room has at
\* that moment.
C10_JoinerGetsSnapshot ==
  [][\A c \in Conns, k \in Campaigns :
       handleJoinCampaign(c, k)
       => LET room1 == heap'[rooms'[k]]
          IN /\ Len(sent') >= 1
             /\ {i \in 1..Len(sent') : c \in sent'[i].to} = {Len(sent')}
             /\ sent'[Len(sent')] =
                  Event({c}, [type |-> "campaign-joined", campaignId |-> k,
                              playback |-> room1.playback,
                              users |-> [i \in 1..Len(room1.users) |-> room1.users[i].user],
                              miniApps |-> room1.miniApps])
             /\ wsdata[c].user # NULL
                => \E i \in 1..Len(room1.users) :
                     room1.users[i] = [conn |-> c, user |-> wsdata[c].user]]_vars

\* A late joiner: an identified connection has just joined a room that
\* another identified connection had set playing with a mini-app enabled.
C10_Witness ==
  /\ last.op = "join-campaign"
  /\ Joined(last.conn)
  /\ RoomOf(last.conn).connections = Conns
  /\ Len(sent) >= 1
  /\ sent[Len(sent)].to = {last.conn}
  /\ sent[Len(sent)].msg.type = "campaign-joined"
  /\ Len(sent[Len(sent)].msg.users) = 2
  /\ sent[Len(sent)].msg.playback.playing
  /\ sent[Len(sent)].msg.miniApps.enabledApps # <<>>

\* The events of a handler step that carry message m.
EventsWith(evs, m) == {i \in 1..Len(evs) : evs[i].msg = m}

\* C11: when an identified connection joins a room, user-joined goes to
\* every other open connection of the room and not to the joiner; when an
\* identified connection leaves its room or closes its socket, user-left
\* goes to every connection that remains in the room and not to the leaver.
C11_RosterChangesReachTheOthers ==
  [][\A c \in Conns :
       /\ \A k \in Campaigns :
            (wsdata[c].user # NULL /\ handleJoinCampaign(c, k))
            => LET m == [type |-> "user-joined", user |-> wsdata[c].user]
                   others == (heap'[rooms'[k]].connections \cap connections) \ {c}
               IN /\ others # {} => \E i \in EventsWith(sent', m) : sent'[i].to = others
                  /\ \A i \in EventsWith(sent', m) : c \notin sent'[i].to
       /\ (/\ c \in connections
           /\ wsdata[c].user # NULL
           /\ wsdata[c].campaignId # NULL
           /\ wsdata[c].campaignId \in DOMAIN rooms
           /\ handleLeaveCampaign(c) \/ handleClose(c))
          => LET m == [type |-> "user-left", userId |-> wsdata[c].user]
                 remaining == (RoomOf(c).connections \cap connections) \ {c}
             IN /\ remaining # {} => \E i \in EventsWith(sent', m) : sent'[i].to = remaining
                /\ \A i \in EventsWith(sent', m) : c \notin sent'[i].to]_vars

\* C12: in every state the roster of a registered room holds exactly the
\* identities of the open connections that are joined to the room and have
\* identified, whichever of identify and join came first.
C12_RosterIsTheIdentifiedMembers ==
  \A k \in DOMAIN rooms :
    {heap[rooms[k]].users[i] : i \in 1..Len(heap[rooms[k]].users)}
      = {[conn |-> c, user |-> wsdata[c].user] :
           c \in {x \in connections : wsdata[x].campaignId = k /\ wsdata[x].user # NULL}}

\* Some timing-relevant field of the playback differs.
TimingChanged(pb, pb1) ==
  \/ pb1.playing # pb.playing
  \/ pb1.currentTime # pb.currentTime
  \/ pb1.timestamp # pb.timestamp
  \/ pb1.assetId # pb.assetId
  \/ pb1.playlistIndex # pb.playlistIndex

\* The step broadcast a message of type ty carrying the playback pb1 to the
\* open connections of room object o.
BroadcastOf(ty, o, pb1) ==
  \E i \in 1..Len(sent') :
    sent'[i] = Event(heap'[o].connections \cap connections', [type |-> ty, playback |-> pb1])

\* C13 as stated: whenever a step changes playing, currentTime, timestamp,
\* assetId or playlistIndex of a registered room, a playback-state message
\* with the new playback goes to the room's connections.
C13_Original ==
  [][\A k \in DOMAIN rooms \cap DOMAIN rooms' :
       (rooms'[k] = rooms[k]
        /\ TimingChanged(heap[rooms[k]].playback, heap'[rooms[k]].playback))
       => BroadcastOf("playback-state", rooms[k], heap'[rooms[k]].playback)]_vars

\* C13, amended: a step that changes playing, currentTime, timestamp or
\* assetId of a registered room, or its playlistIndex other than by the
\* order rebuild of a shuffle toggle, broadcasts playback-state with the new
\* playback to the room's connections; the rebuild of a shuffle toggle
\* changes playlistIndex only and broadcasts queue-updated with the new
\* playback.
C13_TimingChangesAreBroadcast ==
  [][\A k \in DOMAIN rooms \cap DOMAIN rooms' :
       (rooms'[k] = rooms[k]
        /\ TimingChanged(heap[rooms[k]].playback, heap'[rooms[k]].playback))
       => LET pb == heap[rooms[k]].playback
              pb1 == heap'[rooms[k]].playback
          IN IF \E i \in 1..MaxPending : playlistSettingsResume(i)
             THEN /\ pb1 = [pb EXCEPT !.playlistIndex = pb1.playlistIndex]
                  /\ BroadcastOf("queue-updated", rooms[k], pb1)
             ELSE BroadcastOf("playback-state", rooms[k], pb1)]_vars

\* A seek has just moved the position of a room of two connections, and both
\* were sent the playback-state with the new position.
C13_Witness ==
  /\ last.op = "playback-command"
  /\ last.arg = "seek"
  /\ Joined(GM)
  /\ RoomOf(GM).connections = Conns
  /\ RoomOf(GM).playback.currentTime = 1
  /\ RoomOf(GM).playback.playing
  /\ sent = <<Event(Conns, [type |-> "playback-state", playback |-> RoomOf(GM).playback])>>

\* The timing fields of the playback agree.
SameTiming(pb, pb1) ==
  /\ pb1.playing = pb.playing
  /\ pb1.currentTime = pb.currentTime
  /\ pb1.timestamp = pb.timestamp
  /\ pb1.assetId = pb.assetId

\* The one queue-updated broadcast of room object o with its new playback.
QueueUpdatedOnly(o) ==
  <<Event(heap'[o].connections \cap connections',
          [type |-> "queue-updated", playback |-> heap'[o].playback])>>

\* C14: playlist-settings and queue-asset never change playing, currentTime,
\* timestamp or assetId; each is broadcast once as queue-updated (a shuffle
\* toggle that rebuilds the order after its playlist lookup) and never as
\* playback-state; queue-asset changes nothing but nextAssetId, which it
\* overwrites.
C14_SettingsAndQueueKeepTiming ==
  [][/\ last'.op = "playlist-settings"
        => \A c \in Conns, loop \in OptBool, shuffle \in OptBool :
             (Joined(c) /\ last'.conn = c /\ handlePlaylistSettings(c, loop, shuffle))
             => LET o == rooms[wsdata[c].campaignId]
                IN /\ SameTiming(heap[o].playback, heap'[o].playback)
                   /\ IF pending' = pending
                      THEN sent' = QueueUpdatedOnly(o)
                      ELSE sent' = <<>> /\ Len(pending') = Len(pending) + 1
     /\ last'.op = "playlist-settings-resume"
        => \A i \in 1..MaxPending :
             (playlistSettingsResume(i) /\ rooms[pending[i].campaignId] = pending[i].obj)
             => /\ SameTiming(heap[pending[i].obj].playback, heap'[pending[i].obj].playback)
                /\ sent' = QueueUpdatedOnly(pending[i].obj)
     /\ last'.op = "queue-asset"
        => \A c \in Conns, a \in Assets :
             (Joined(c) /\ last'.conn = c /\ handleQueueAsset(c, a))
             => LET o == rooms[wsdata[c].campaignId]
                IN /\ heap'[o] = [heap[o] EXCEPT !.playback.nextAssetId = a]
                   /\ sent' = QueueUpdatedOnly(o)]_vars

\* A queue-asset has just replaced the queued asset of a playing playlist
\* and was broadcast as queue-updated.
C14_Witness ==
  /\ last.op = "queue-asset"
  /\ last.arg = External
  /\ Joined(last.conn)
  /\ RoomOf(last.conn).playback.nextAssetId = External
  /\ RoomOf(last.conn).playback.playing
  /\ Truthy(RoomOf(last.conn).playback.playlistId)
  /\ sent = <<Event({last.conn}, [type |-> "queue-updated",
                                  playback |-> RoomOf(last.conn).playback])>>

\* The message types a command broadcasts when it changes the room, in the
\* order of its broadcast calls.
CommandTypes(op) ==
  CASE op \in {"playback-command", "playlist-play-resume", "playlist-stop", "queue-jump"}
         -> <<"playback-state">>
    [] op \in {"playlist-settings", "playlist-settings-resume", "queue-asset"}
         -> <<"queue-updated">>
    [] op \in {"miniapp-enable", "miniapp-disable"} -> <<"miniapp-state">>
    [] op = "miniapp-action" -> <<"miniapp-updated">>
    [] op = "asset-select" -> <<"asset-selected", "playback-state">>
    [] OTHER -> <<>>

\* The step changes the playback or the mini-app state of room object o.
RoomChanged(o) ==
  \/ heap'[o].playback # heap[o].playback
  \/ heap'[o].miniApps # heap[o].miniApps

TypesSent == [i \in 1..Len(sent') |-> sent'[i].msg.type]

\* Every message of the step goes to the open connections of room object o.
AllToRoom(o) ==
  \A i \in 1..Len(sent') : sent'[i].to = heap'[o].connections \cap connections'

\* A playlist-settings that waits for its playlist lookup broadcasts when the
\* lookup has returned.
AwaitsLookup == last'.op = "playlist-settings" /\ pending' # pending

\* C15 as stated: a command that changes a room's playback or mini-app
\* state broadcasts exactly one message to the room, of a type fixed by the
\* command.
C15_Original ==
  [][\A k \in DOMAIN rooms \cap DOMAIN rooms' :
       (rooms'[k] = rooms[k] /\ RoomChanged(rooms[k]))
       => /\ AllToRoom(rooms[k])
          /\ IF AwaitsLookup THEN sent' = <<>>
             ELSE Len(sent') = 1 /\ TypesSent[1] \in Range(CommandTypes(last'.op))]_vars

\* C15: a command that changes a room's playback or mini-app state
\* broadcasts to the room the messages fixed by the command alone: exactly
\* one message, except asset-select, which broadcasts asset-selected and
\* then playback-state.
C15_BroadcastsFixedByCommand ==
  [][\A k \in DOMAIN rooms \cap DOMAIN rooms' :
       (rooms'[k] = rooms[k] /\ RoomChanged(rooms[k]))
       => /\ AllToRoom(rooms[k])
          /\ IF AwaitsLookup THEN sent' = <<>>
             ELSE TypesSent = CommandTypes(last'.op)]_vars

\* An asset-select has just replaced the asset and was broadcast twice to
\* both connections of the room.
C15_Witness ==
  /\ last.op = "asset-select"
  /\ Joined(GM)
  /\ RoomOf(GM).connections = Conns
  /\ RoomOf(GM).playback.assetId = External
  /\ sent = <<Event(Conns, [type |-> "asset-selected", assetId |-> External]),
              Event(Conns, [type |-> "playback-state", playback |-> RoomOf(GM).playback])>>

\* The state the media-display reducer yields.
MediaDisplayAfter(state, action, payload) ==
  IF action = "set-asset" THEN [assetId |-> payload]
  ELSE IF action = "clear" THEN [assetId |-> NULL]
  ELSE state

\* C16: a miniapp-action for an app that is not in enabledApps leaves the
\* mini-app state unchanged and reaches nobody but the sender (as an error);
\* for an enabled app the action is applied and exactly one miniapp-updated
\* with that app's id and new state goes to the room.
C16_ActionNeedsEnabledApp ==
  [][last'.op = "miniapp-action"
     => \A c \in Conns, appId \in AppIds, action \in MiniAppActions, payload \in Assets \cup {NULL} :
          (Joined(c) /\ last'.conn = c /\ last'.arg = appId
           /\ handleMiniAppAction(c, appId, action, payload))
          => LET o == rooms[wsdata[c].campaignId]
                 apps == heap[o].miniApps
             IN IF ~Includes(apps.enabledApps, appId)
                THEN /\ heap' = heap
                     /\ \A i \in 1..Len(sent') :
                          sent'[i].to = {c} /\ sent'[i].msg.type = "error"
                ELSE LET state == IF appId = "media-display"
                                  THEN MediaDisplayAfter(apps.appStates[appId], action, payload)
                                  ELSE apps.appStates[appId]
                     IN /\ heap'[o].miniApps.enabledApps = apps.enabledApps
                        /\ heap'[o].miniApps.appStates = [apps.appStates EXCEPT ![appId] = state]
                        /\ sent' = <<Event(heap[o].connections \cap connections,
                                           [type |-> "miniapp-updated", appId |-> appId,
                                            state |-> state])>>]_vars

\* A miniapp-action on media-display, disabled after it had shown an asset,
\* has just been rejected with an error to the sender only.
C16_Witness ==
  /\ last.op = "miniapp-action"
  /\ last.arg = "media-display"
  /\ Joined(GM)
  /\ RoomOf(GM).connections = Conns
  /\ ~Includes(RoomOf(GM).miniApps.enabledApps, "media-display")
  /\ RoomOf(GM).miniApps.appStates = ("media-display" :> [assetId |-> External])
  /\ sent = <<Event({GM}, [type |-> "error", message |-> "App is not enabled"])>>

DefaultStateOf(appId) == IF appId = "media-display" THEN [assetId |-> NULL] ELSE <<>>

\* C17: enabling an app that has no state yet gives it its default state;
\* disabling removes it from enabledApps and keeps every app state; enabling
\* an app that has a state keeps that state.
C17_DisableKeepsAppState ==
  [][/\ last'.op = "miniapp-enable"
        => \A c \in Conns, appId \in AppIds :
             (Joined(c) /\ last'.conn = c /\ handleMiniAppEnable(c, appId)
              /\ ~Includes(RoomOf(c).miniApps.enabledApps, appId))
             => LET o == rooms[wsdata[c].campaignId]
                    apps == heap[o].miniApps
                    apps1 == heap'[o].miniApps
                IN /\ Includes(apps1.enabledApps, appId)
                   /\ DOMAIN apps1.appStates = DOMAIN apps.appStates \cup {appId}
                   /\ \A a \in DOMAIN apps.appStates : apps1.appStates[a] = apps.appStates[a]
                   /\ appId \notin DOMAIN apps.appStates
                      => apps1.appStates[appId] = DefaultStateOf(appId)
     /\ last'.op = "miniapp-disable"
        => \A c \in Conns, appId \in AppIds :
             (Joined(c) /\ last'.conn = c /\ handleMiniAppDisable(c, appId))
             => LET o == rooms[wsdata[c].campaignId]
                IN /\ ~Includes(heap'[o].miniApps.enabledApps, appId)
                   /\ heap'[o].miniApps.appStates = heap[o].miniApps.appStates]_vars

\* media-display has just been enabled again and still shows the asset set
\* before it was disabled.
C17_Witness ==
  /\ last.op = "miniapp-enable"
  /\ last.arg = "media-display"
  /\ Joined(GM)
  /\ Includes(RoomOf(GM).miniApps.enabledApps, "media-display")
  /\ RoomOf(GM).miniApps.appStates["media-display"] = [assetId |-> External]
  /\ sent = <<Event(RoomOf(GM).connections,
                    [type |-> "miniapp-state", miniApps |-> RoomOf(GM).miniApps])>>

\* C18: commands are applied one at a time, each running to completion
\* before the next is handled: a handler that waits for its playlist lookup
\* is continued before any other command is handled, and a pause handled
\* right after a playlist-play leaves the room paused.
C18_CommandsRunToCompletion ==
  [][/\ pending # <<>>
        => \E i \in 1..MaxPending : playlistPlayResume(i) \/ playlistSettingsResume(i)
     /\ (/\ last.op = "playback-command"
         /\ last.arg = "pause"
         /\ last'.op = "playlist-play-resume"
         /\ last'.conn = last.conn)
        => ~heap'[last'.obj].playback.playing]_vars

\* C19: between a playlist-play and the next playlist-play, playlist-stop or
\* asset-select, no step changes the realized order of a room other than
\* by permuting it, whatever happens to the stored playlist.
C19_RealizedOrderIsASnapshot ==
  [][\A k \in DOMAIN rooms \cap DOMAIN rooms' :
       (/\ rooms'[k] = rooms[k]
        /\ last'.op \notin {"playlist-play-resume", "playlist-stop", "asset-select"})
       => heap'[rooms[k]].playlistOrder \in Perms(heap[rooms[k]].playlistOrder)]_vars

\* The client has given up: the error asks for a refresh and no retry is
\* under way.
Fatal == error = ConnectionLost /\ ~reconnecting

\* The close of a socket after a successful connection schedules the retry
\* after n failures min(1000 * 2^n, 30000) ms later, gives up after 10
\* failures without scheduling anything, and an open resets the counter.
BackoffSteps ==
  \A s \in SocketIds :
    /\ (onclose(s) /\ shouldReconnect)
       => IF reconnectAttempts >= 10
          THEN /\ error' = ConnectionLost
               /\ ~reconnecting'
               /\ UNCHANGED <<reconnectAttempts, reconnectTimeout, orphanTimers>>
          ELSE /\ reconnecting'
               /\ reconnectTimeout' = <<Min(1000 * 2^reconnectAttempts, 30000)>>
               /\ reconnectAttempts' = reconnectAttempts + 1
    /\ onopen(s) => connected' /\ reconnectAttempts' = 0 /\ ~reconnecting'

\* C20 as stated: the retries back off as min(1000 * 2^n, 30000) ms, stop
\* after 10 consecutive failures in the fatal state, the counter is reset by
\* an open, and a client that is retrying is eventually connected or fatal.
C20_Original ==
  /\ [][BackoffSteps]_vars
  /\ reconnecting ~> (connected \/ Fatal)

\* C20: the retries back off as min(1000 * 2^n, 30000) ms, stop after 10
\* consecutive failures in the fatal state, the counter is reset by an open,
\* and a client that is retrying is eventually connected or fatal unless
\* disconnect() has been called meanwhile.
C20_ReconnectBacksOffThenGivesUp ==
  /\ [][BackoffSteps]_vars
  /\ reconnecting ~> (connected \/ Fatal \/ ~shouldReconnect)

\* The tenth retry in a row has failed and the client is in the fatal state.
C20_Witness ==
  /\ Fatal
  /\ reconnectAttempts = 10
  /\ shouldReconnect
  /\ ~connected
  /\ reconnectTimeout = <<>>
  /\ \A s \in SocketIds : sockets[s] = "none"

\* identify, when an identity is known, and then join-campaign.
IdentifyThenJoin(socket, identity, campaignId) ==
  (IF identity # NULL THEN <<[socket |-> socket, msg |-> IdentifyMsg(identity)]>> ELSE <<>>)
    \o <<[socket |-> socket, msg |-> JoinCampaignMsg(campaignId)]>>

\* C21: when a reconnect succeeds, a client that had joined a campaign
\* sends identify first, if it has a last-known identity, and then
\* join-campaign for its last campaign, whether it is identified or not.
C21_ReconnectRejoinsCampaign ==
  [][\A s \in SocketIds :
       (onopen(s) /\ shouldReconnect /\ ws = s /\ lastCampaignId # NULL)
       => out' = IdentifyThenJoin(s, lastIdentity, lastCampaignId)]_vars

\* C22: applying a queue-updated message whose asset id, playing flag,
\* position and timestamp equal the ones already held runs no
\* reconciliation pass.
C22_QueueUpdateDoesNotReconcile ==
  [][\A pb \in Snapshots :
       (receive("queue-updated", pb) /\ SameTiming(playbackState, pb)) => syncs' = 0]_vars

\* The target of a pass, in ms.
TargetOf(state, t) ==
  state.currentTime * 1000 + (IF state.playing THEN t - state.timestamp ELSE 0)

\* C28: a reconciliation pass moves the element to position +
\* (playing ? now - timestamp : 0) iff it is more than 0.5 s away, starts it
\* iff the snapshot is playing and the element is paused (a rejected play()
\* leaves it paused and the pass completes), pauses it iff the snapshot is
\* not playing and the element is playing, and leaves it within 0.5 s of
\* the target.
C28_PassReconcilesElement ==
  \A ok \in BOOLEAN :
    LET e1 == syncPlayback(playbackState, el, clientNow, ok)
        target == TargetOf(playbackState, clientNow)
        far == Abs(el.currentTime - target) > 500
    IN el.kind = "audio"
       => /\ e1.currentTime = (IF far THEN target ELSE el.currentTime)
          /\ Abs(e1.currentTime - target) <= 500
          /\ e1.paused = (IF playbackState.playing /\ el.paused THEN ~ok
                          ELSE IF ~playbackState.playing /\ ~el.paused THEN TRUE
                          ELSE el.paused)

\* A pass has just moved a playing element that was more than 0.5 s behind
\* to the target.
C28_Witness ==
  /\ syncs > 0
  /\ el.kind = "audio"
  /\ playbackState.playing
  /\ ~el.paused
  /\ playbackState.currentTime = 1
  /\ clientNow = 900
  /\ el.currentTime = TargetOf(playbackState, clientNow)

AppState(appId) == RoomOf(GM).miniApps.appStates[appId]
AppStateAfter(appId) == heap'[rooms'[wsdata'[GM].campaignId]].miniApps.appStates[appId]

AppRuns(appId) == Joined(GM) /\ appEnabled(RoomOf(GM), appId)

AnswersOf(q, user) == {i \in 1..Len(q.answers) : q.answers[i].oderId = user}

\* C24: a quiz holds at most one answer per actor; a submit-answer from an
\* actor who has answered, or outside phase question, leaves the quiz state
\* unchanged, and an accepted one appends the actor's answer after the
\* answers already stored; reveal-results leaves the state unchanged unless
\* the phase is question.
C24_QuizKeepsFirstAnswer ==
  [][(last'.op = "miniapp-action" /\ last'.arg = "quiz" /\ AppRuns("quiz"))
     => LET q == AppState("quiz")
            q1 == AppStateAfter("quiz")
        IN /\ \A u \in Users : Cardinality(AnswersOf(q1, u)) <= 1
           /\ \A c \in Conns, p \in AnswerPayloads :
                (Joined(c) /\ handleMiniAppAction(c, "quiz", "submit-answer", p))
                => LET user == wsdata[c].user
                   IN IF q.phase # "question" \/ user = NULL \/ AnswersOf(q, user) # {}
                      THEN q1 = q
                      ELSE /\ Len(q1.answers) = Len(q.answers) + 1
                           /\ SubSeq(q1.answers, 1, Len(q.answers)) = q.answers
                           /\ q1.answers[Len(q1.answers)].oderId = user
                           /\ q1.answers[Len(q1.answers)].answerIndex = p.answerIndex
                           /\ [q1 EXCEPT !.answers = q.answers] = q
           /\ (handleMiniAppAction(GM, "quiz", "reveal-results", NULL)
                 /\ q.phase # "question") => q1 = q]_vars

\* The first user has answered at time 0 and has just submitted again at
\* time 1: the stored answer is the first one.
C24_Witness ==
  /\ AppRuns("quiz")
  /\ last.op = "miniapp-action"
  /\ last.arg = "quiz"
  /\ last.conn = GM
  /\ now = 1
  /\ AppState("quiz").phase = "question"
  /\ Len(AppState("quiz").answers) = 1
  /\ AppState("quiz").answers[1].oderId = Identity(GM)
  /\ AppState("quiz").answers[1].timestamp = 0
  /\ Len(sent) = 1
  /\ sent[1].msg.type = "miniapp-updated"

\* ------------------------------------------------------ card game claims
\* The total of a hand by the rules of the game: each ace counts 11 or 1,
\* and the total is the largest one that does not exceed 21 when there is
\* one, else the total with every ace counting 1.
RECURSIVE LowTotal(_)
LowTotal(hand) ==
  IF hand = <<>> THEN 0
  ELSE (IF Head(hand) = "A" THEN 1 ELSE RankValue[Head(hand)]) + LowTotal(Tail(hand))

HandTotal(hand) ==
  LET low == LowTotal(hand)
      aces == Cardinality({i \in 1..Len(hand) : hand[i] = "A"})
      fits == {k \in 0..aces : low + 10 * k <= 21}
  IN IF fits = {} THEN low ELSE low + 10 * (CHOOSE k \in fits : \A j \in fits : j <= k)

\* A step of the card game by connection c in the room of the game master.
CardStep(c, action) ==
  /\ last'.op = "miniapp-action"
  /\ last'.arg = "blackjack"
  /\ last'.conn = c
  /\ Joined(c)
  /\ AppRuns("blackjack")
  /\ handleMiniAppAction(c, "blackjack", action, NoPayload)

Unresolved(players) == {j \in 1..Len(players) : players[j].status = "playing"}

\* C25: a card game in phase results shows the dealer's hand, the dealer's
\* total is at least 17 and no player is still playing; the phase becomes
\* results by a deal, a hit or a stand only; and a deal in which the two
\* cards of every player total 21 takes the game from joining to results
\* with every player marked blackjack.
C25_ResultsAreSettled ==
  [][(last'.op = "miniapp-action" /\ last'.arg = "blackjack" /\ AppRuns("blackjack"))
     => LET b == AppState("blackjack")
            b1 == AppStateAfter("blackjack")
            n == Len(b.players)
        IN /\ b1.phase = "results"
                => /\ ~b1.dealer.hidden
                   /\ HandTotal(b1.dealer.hand) >= 17
                   /\ Unresolved(b1.players) = {}
           /\ (b1.phase = "results" /\ b.phase # "results")
                => \E c \in Conns, a \in {"deal", "hit", "stand"} : CardStep(c, a)
           /\ (/\ CardStep(GM, "deal")
               /\ b.phase = "joining"
               /\ n > 0
               /\ \A i \in 1..n : HandTotal(<<drawn(b.deck, i), drawn(b.deck, n + 1 + i)>>) = 21)
                => /\ b1.phase = "results"
                   /\ Len(b1.players) = n
                   /\ \A i \in 1..n : b1.players[i].status = "blackjack"]_vars

\* Both players were dealt 21 and the dealer has drawn a third card.
C25_Witness ==
  /\ AppRuns("blackjack")
  /\ last.op = "miniapp-action"
  /\ AppState("blackjack").phase = "results"
  /\ Len(AppState("blackjack").players) = 2
  /\ \A i \in 1..2 : AppState("blackjack").players[i].status = "blackjack"
  /\ Len(AppState("blackjack").dealer.hand) = 3
  /\ ~AppState("blackjack").dealer.hidden

\* The player whose turn it is, NULL when there is none.
TurnUser(b) ==
  IF b.phase = "playing" /\ b.currentPlayerIndex < Len(b.players)
  THEN b.players[b.currentPlayerIndex + 1].oderId ELSE NULL

\* C26: a hit or a stand from an actor who is not the player whose turn it
\* is (another player, a non-player, an unidentified connection), or in a
\* phase other than playing, leaves the state of the card game unchanged.
C26_OnlyTheTurnPlayerActs ==
  [][\A c \in Conns, a \in {"hit", "stand"} :
       (CardStep(c, a)
          /\ (wsdata[c].user = NULL \/ TurnUser(AppState("blackjack")) # wsdata[c].user))
       => AppStateAfter("blackjack") = AppState("blackjack")]_vars

\* The second connection, a player of the round, has just acted while it
\* was the first player's turn.
C26_Witness ==
  /\ AppRuns("blackjack")
  /\ last.op = "miniapp-action"
  /\ last.arg = "blackjack"
  /\ last.conn # GM
  /\ wsdata[last.conn].user # NULL
  /\ AppState("blackjack").phase = "playing"
  /\ Len(AppState("blackjack").players) = 2
  /\ TurnUser(AppState("blackjack")) = Identity(GM)
  /\ Len(AppState("blackjack").players[AppState("blackjack").currentPlayerIndex + 1].hand) = 3

\* A hit or stand of connection c is accepted: the phase is playing and c
\* is the player at currentPlayerIndex.
Accepted(c, action) ==
  /\ CardStep(c, action)
  /\ wsdata[c].user # NULL
  /\ TurnUser(AppState("blackjack")) = wsdata[c].user

\* The 0-based index of the first unresolved player at or after index from,
\* the number of players when there is none.
NextUnresolved(players, from) ==
  LET later == {j \in Unresolved(players) : j - 1 >= from}
  IN IF later = {} THEN Len(players) ELSE (CHOOSE j \in later : \A k \in later : j <= k) - 1

\* The top card of the deck has moved to the hand of the player at index i
\* and no other hand has changed.
OneCardMoved(b, b1, i) ==
  /\ b.deck # <<>>
  /\ Len(b1.players) = Len(b.players)
  /\ b1.players[i + 1].hand = Append(b.players[i + 1].hand, b.deck[Len(b.deck)])
  /\ \A j \in 1..Len(b.players) : j # i + 1 => b1.players[j] = b.players[j]

\* The cards the dealer holds after drawing k cards from deck.
DealerWith(hand, deck, k) == hand \o [j \in 1..k |-> deck[Len(deck) - j + 1]]

\* The dealer has drawn from deck until the total reached 17, and the game
\* is in phase results.
DealerPlayed(b, b1, deck) ==
  \E k \in 0..Len(deck) :
    /\ b1.dealer = [hand |-> DealerWith(b.dealer.hand, deck, k), hidden |-> FALSE]
    /\ b1.deck = SubSeq(deck, 1, Len(deck) - k)
    /\ HandTotal(b1.dealer.hand) >= 17
    /\ \A j \in 0..(k - 1) : HandTotal(DealerWith(b.dealer.hand, deck, j)) < 17
    /\ b1.phase = "results"

\* The deck runs out before the dealer reaches 17.
DealerStarves(hand, deck) ==
  \A k \in 0..Len(deck) : HandTotal(DealerWith(hand, deck, k)) < 17

\* What follows the move of a player: the dealer plays when nobody is
\* unresolved, else the game goes on with the deck as the move left it.
RoundGoesOn(b, b1, deck) ==
  IF Unresolved(b1.players) = {}
  THEN DealerPlayed(b, b1, deck)
  ELSE /\ b1.phase = "playing"
       /\ b1.dealer = b.dealer
       /\ b1.deck = deck

\* C30 as stated: after each accepted hit one card has moved from the deck
\* to the player's hand and the turn has passed on to the next unresolved
\* player; after an accepted stand the turn has passed on likewise; when
\* nobody is unresolved the dealer has drawn to 17 and the phase is results.
C30_Original ==
  [][\A c \in Conns :
       LET b == AppState("blackjack")
           b1 == AppStateAfter("blackjack")
           i == b.currentPlayerIndex
       IN /\ Accepted(c, "hit")
               => /\ OneCardMoved(b, b1, i)
                  /\ b1.currentPlayerIndex = NextUnresolved(b1.players, i + 1)
                  /\ RoundGoesOn(b, b1, SubSeq(b.deck, 1, Len(b.deck) - 1))
          /\ Accepted(c, "stand")
               => /\ b1.currentPlayerIndex = NextUnresolved(b1.players, i + 1)
                  /\ RoundGoesOn(b, b1, b.deck)]_vars

\* C30: after an accepted hit the top card of the deck has moved to the
\* player's hand; the turn stays with that player while the hand totals
\* less than 21 and else passes to the next unresolved player; after an
\* accepted stand the player is marked stand and the turn passes to the
\* next unresolved player; when nobody is unresolved the dealer has drawn
\* to 17 and the phase is results in the same step. A hit or stand for
\* which the deck runs out of cards leaves the game unchanged.
C30_TurnPassesWhenResolved ==
  [][\A c \in Conns :
       LET b == AppState("blackjack")
           b1 == AppStateAfter("blackjack")
           i == b.currentPlayerIndex
           rest == SubSeq(b.deck, 1, Len(b.deck) - 1)
           newHand == Append(b.players[i + 1].hand, b.deck[Len(b.deck)])
           others == {j \in Unresolved(b.players) : j # i + 1}
       IN /\ Accepted(c, "hit")
               => IF b.deck = <<>>
                     \/ (others = {} /\ HandTotal(newHand) >= 21
                           /\ DealerStarves(b.dealer.hand, rest))
                  THEN b1 = b
                  ELSE /\ OneCardMoved(b, b1, i)
                       /\ b1.players[i + 1].status =
                            (IF HandTotal(newHand) > 21 THEN "bust"
                             ELSE IF HandTotal(newHand) = 21 THEN "stand" ELSE "playing")
                       /\ b1.currentPlayerIndex =
                            (IF HandTotal(newHand) < 21 THEN i
                             ELSE NextUnresolved(b1.players, i + 1))
                       /\ RoundGoesOn(b, b1, rest)
          /\ Accepted(c, "stand")
               => IF others = {} /\ DealerStarves(b.dealer.hand, b.deck)
                  THEN b1 = b
                  ELSE /\ b1.players = [b.players EXCEPT ![i + 1].status = "stand"]
                       /\ b1.currentPlayerIndex = NextUnresolved(b1.players, i + 1)
                       /\ RoundGoesOn(b, b1, b.deck)]_vars

\* The first player has hit to more than 21 and the turn has passed over
\* nobody to the second player, who is still playing.
C30_Witness ==
  /\ AppRuns("blackjack")
  /\ last.op = "miniapp-action"
  /\ last.arg = "blackjack"
  /\ AppState("blackjack").phase = "playing"
  /\ Len(AppState("blackjack").players) = 2
  /\ AppState("blackjack").players[1].status = "bust"
  /\ Len(AppState("blackjack").players[1].hand) = 3
  /\ AppState("blackjack").currentPlayerIndex = 1
  /\ wsdata[last.conn].user = AppState("blackjack").players[1].oderId

\* The apps the server has a default state and a reducer for.
RegisteredApps == {"media-display", "dice-roller", "quiz", "blackjack"}

\* C27: a miniapp-enable or a miniapp-action that names an app which is
\* not registered is answered with one error to the sender, leaves
\* enabledApps and appStates of the room as they were and is broadcast to
\* nobody.
C27_UnknownAppIsRejected ==
  [][\A appId \in AppIds \ RegisteredApps :
       (/\ last'.arg = appId
        /\ Joined(GM)
        /\ \/ handleMiniAppEnable(GM, appId)
           \/ handleMiniAppAction(GM, appId, "set-asset", External)
           \/ handleMiniAppAction(GM, appId, "clear", NULL))
       => /\ heap'[rooms'[wsdata'[GM].campaignId]].miniApps = RoomOf(GM).miniApps
          /\ Len(sent') = 1
          /\ sent'[1].to = {GM}
          /\ sent'[1].msg.type = "error"]_vars

\* The distance of the animated volume of layer a from its target.
FadeGap(animated, a) == Abs(playbackState.layerVolumes[a] - animatedVolume(animated, a))

\* In a frame of a layered playlist every layer moves toward its target by
\* no more than FADE_SPEED * deltaTime and does not pass it, and another
\* frame is requested exactly when some layer is more than 0.001 away.
FadeSteps ==
  \A gap \in FrameGaps :
    (animateFade(gap) /\ isLayeredPlaylist(playbackState))
    => LET delta == IF lastFadeTime # 0 THEN frameTime' - lastFadeTime ELSE 16
       IN /\ \A a \in DOMAIN playbackState.layerVolumes :
               LET t == playbackState.layerVolumes[a]
                   v == animatedVolume(animatedLayerVolumes, a)
                   v1 == animatedVolume(animatedLayerVolumes', a)
               IN /\ Abs(v1 - v) <= delta
                  /\ IF t >= v THEN v <= v1 /\ v1 <= t ELSE t <= v1 /\ v1 <= v
          /\ fadeAnimationFrame'
               = (\E a \in DOMAIN playbackState.layerVolumes :
                    FadeGap(animatedLayerVolumes', a) > 1)

\* C29: each frame of the fade moves every layer's animated volume toward
\* its target by at most FADE_SPEED * deltaTime without passing it and
\* requests another frame only while some layer is more than 0.001 from
\* its target; a requested frame loop stops in the end.
C29_FadeConvergesAndStops ==
  /\ [][FadeSteps]_vars
  /\ fadeAnimationFrame ~> ~fadeAnimationFrame

\* A fade of the first layer from 0 to 1 has run several frames and has
\* stopped on the target.
C29_Witness ==
  /\ isLayeredPlaylist(playbackState)
  /\ ~fadeAnimationFrame
  /\ frameTime >= 1300
  /\ playbackState.layerVolumes = [a \in Layers |-> IF a = "a1" THEN 1000 ELSE 0]
  /\ animatedLayerVolumes = playbackState.layerVolumes

\* A step of the quiz in the room of the game master that changes the phase
\* from one value to another.
QuizPhaseChange(from, to) ==
  /\ AppState("quiz").phase = from
  /\ AppStateAfter("quiz").phase = to

QuizStep == last'.op = "miniapp-action" /\ last'.arg = "quiz" /\ AppRuns("quiz")

\* C31 as stated: the only phase changes of the quiz are idle to question,
\* question to results and results to idle.
C31_Original ==
  [][(QuizStep /\ AppStateAfter("quiz").phase # AppState("quiz").phase)
     => \/ QuizPhaseChange("idle", "question")
        \/ QuizPhaseChange("question", "results")
        \/ QuizPhaseChange("results", "idle")]_vars

\* C31: the phase of the quiz changes only to question by a start-question
\* that carries a payload (from idle or from results), from question to
\* results by reveal-results, and to idle by reset (from question or from
\* results).
C31_QuizPhaseChanges ==
  [][(QuizStep /\ AppStateAfter("quiz").phase # AppState("quiz").phase)
     => \/ /\ AppStateAfter("quiz").phase = "question"
           /\ \E p \in Questions : handleMiniAppAction(GM, "quiz", "start-question", p)
        \/ /\ QuizPhaseChange("question", "results")
           /\ handleMiniAppAction(GM, "quiz", "reveal-results", NULL)
        \/ /\ AppStateAfter("quiz").phase = "idle"
           /\ handleMiniAppAction(GM, "quiz", "reset", NULL)]_vars

\* A question has been started from phase results: the quiz is in phase
\* question at time 1 with a question started at time 1, which only a
\* start-question after the reveal of the first question can give.
C31_Witness ==
  /\ AppRuns("quiz")
  /\ last.op = "miniapp-action"
  /\ last.arg = "quiz"
  /\ AppState("quiz").phase = "question"
  /\ AppState("quiz").question = "q2"
  /\ AppState("quiz").startTime = 1
  /\ AppState("quiz").answers = <<>>

\* C32: whenever the playlistId of a room is null, its realized order is
\* empty, its playlistIndex is -1 and its playlistLength is 0.
C32_NoPlaylistMeansClearedFields ==
  \A k \in DOMAIN rooms :
    LET room == heap[rooms[k]]
    IN room.playback.playlistId = NULL
         => /\ room.playlistOrder = <<>>
            /\ room.playback.playlistIndex = -1
            /\ room.playback.playlistLength = 0

\* C33: whenever a playlist is active, playlistIndex is an index into the
\* realized order, playlistLength is the length of that order and assetId is
\* the entry of the order at playlistIndex.
C33_ActivePlaylistIsConsistent ==
  \A k \in DOMAIN rooms :
    LET room == heap[rooms[k]]
        pb == room.playback
    IN pb.playlistId # NULL
         => /\ 0 <= pb.playlistIndex
            /\ pb.playlistIndex < Len(room.playlistOrder)
            /\ pb.playlistLength = Len(room.playlistOrder)
            /\ pb.assetId = At(room.playlistOrder, pb.playlistIndex)

\* C34: a pause does not move the displayed position: the displayed position
\* of the room just after a pause handled at instant now equals the one just
\* before it.
C34_PauseKeepsDisplayedPosition ==
  [][\A c \in Conns :
       (/\ last'.op = "playback-command"
        /\ last'.arg = "pause"
        /\ last'.conn = c
        /\ Joined(c)
        /\ handlePlaybackCommand(c, "pause", FALSE, 0))
       => displayedPosition(heap'[rooms[wsdata[c].campaignId]].playback, now)
            = displayedPosition(RoomOf(c).playback, now)]_vars

\* The registered rooms whose connection set holds connection c.
RoomsOf(c) == {k \in DOMAIN rooms : c \in heap[rooms[k]].connections}

\* C35: each connection is a member of at most one room; an open connection
\* is a member of room k exactly when its campaignId is k; every key of a
\* roster is a member of that room; a closed connection is a member of no
\* room and of no roster.
C35_MembershipFollowsCampaignId ==
  /\ \A c \in Conns : Cardinality(RoomsOf(c)) <= 1
  /\ \A c \in connections, k \in Campaigns : (k \in RoomsOf(c)) <=> (wsdata[c].campaignId = k)
  /\ \A k \in DOMAIN rooms :
       \A i \in 1..Len(heap[rooms[k]].users) :
         heap[rooms[k]].users[i].conn \in heap[rooms[k]].connections
  /\ \A c \in Conns \ connections :
       /\ RoomsOf(c) = {}
       /\ \A k \in DOMAIN rooms :
            \A i \in 1..Len(heap[rooms[k]].users) : heap[rooms[k]].users[i].conn # c

\* The identities a room has announced and not yet reported as left: the
\* roster is written exactly where user-joined is broadcast (and is what a
\* campaign-joined lists), and is cut exactly where user-left is broadcast.
Announced(room) == {room.users[i].user : i \in 1..Len(room.users)}

\* C36: a user-left message reaches a room only for an identity that was
\* announced to that room and has not been reported as left.
C36_UserLeftOnlyForAnnounced ==
  [][\A c \in Conns :
       (/\ last'.conn = c
        /\ last'.op \in {"leave-campaign", "close", "join-campaign"}
        /\ Joined(c))
       => \A i \in 1..Len(sent') :
            (sent'[i].msg.type = "user-left" /\ sent'[i].to # {})
            => sent'[i].msg.userId \in Announced(RoomOf(c))]_vars

\* C40: a join-campaign by a connection that is already joined to that same
\* campaign leaves the playback state, the realized order and the mini-app
\* state of the room as they were, also when it is the only member.
C40_RejoinKeepsRoomState ==
  [][\A c \in Conns, k \in Campaigns :
       (/\ last'.op = "join-campaign"
        /\ last'.conn = c
        /\ Joined(c)
        /\ wsdata[c].campaignId = k
        /\ c \in RoomOf(c).connections
        /\ handleJoinCampaign(c, k))
       => /\ k \in DOMAIN rooms'
          /\ heap'[rooms'[k]].playback = RoomOf(c).playback
          /\ heap'[rooms'[k]].playlistOrder = RoomOf(c).playlistOrder
          /\ heap'[rooms'[k]].miniApps = RoomOf(c).miniApps]_vars

\* The statuses of a player whose turn is over.
Resolved == {"stand", "bust", "blackjack"}

\* C39: in every state of the card game with phase playing,
\* currentPlayerIndex is an index into players, the player at that index has
\* status playing, and every player before that index is resolved.
C39_TurnIndexIsValid ==
  (AppRuns("blackjack") /\ AppState("blackjack").phase = "playing")
    => LET b == AppState("blackjack")
       IN /\ 0 <= b.currentPlayerIndex
          /\ b.currentPlayerIndex < Len(b.players)
          /\ b.players[b.currentPlayerIndex + 1].status = "playing"
          /\ \A i \in 1..b.currentPlayerIndex : b.players[i].status \in Resolved

\* The second player has the turn after the first one was resolved.
C39_Witness ==
  /\ AppRuns("blackjack")
  /\ AppState("blackjack").phase = "playing"
  /\ AppState("blackjack").currentPlayerIndex = 1
  /\ Len(AppState("blackjack").players) = 2
  /\ AppState("blackjack").players[1].status \in {"stand", "bust"}
  /\ last.op = "miniapp-action"

\* The sockets of the client that are connecting or open.
Live(socks) == {s \in SocketIds : socks[s] \in {"connecting", "open"}}

\* C38: the client has at most one live socket at any time, and the close
\* event of a socket other than the current one leaves the reference to the
\* current socket in place.
C38_OneLiveSocket ==
  [][/\ Cardinality(Live(sockets')) <= 1
     /\ \A s \in SocketIds :
          (ws # NULL /\ s # ws /\ sockets[s] # "none" /\ onclose(s)) => ws' = ws]_vars

\* Connection c is open and the room of its campaign holds it as a member.
HeldAsJoined(c) == Joined(c) /\ c \in RoomOf(c).connections

\* C37: once every message of the server has been delivered in order and no
\* command is in progress, each connected client that the server holds as
\* joined to a room has the playback state and the mini-app state of that
\* room.
C37_ClientsConverge ==
  (Delivered /\ pending = <<>>)
    => \A c \in Conns :
         HeldAsJoined(c)
           => /\ clients[c].playbackState = RoomOf(c).playback
              /\ clients[c].miniAppState = RoomOf(c).miniApps

====
